---------------------------- MODULE Spec2Model ----------------------------
(***************************************************************************)
(* A model of the deep-research skill of claude-system:                    *)
(*   lib/http.py       request(), _get_retry_delay(), stream_sse(),        *)
(*                     _parse_sse_lines()                                  *)
(*   lib/gemini_dr.py  research(), _stream_response(),                     *)
(*                     _poll_response_fallback(), _extract_report()        *)
(*   lib/openai_dr.py  research(), _poll_response()                        *)
(*   lib/matrix.py     match_topics()                                      *)
(*   lib/validate.py   validate_citations()                                *)
(*                                                                         *)
(* The specifications of the module:                                       *)
(*   SpecResearch  one research() call of either provider; a network       *)
(*                 operation (http.post, http.get, one step of the         *)
(*                 stream_sse generator) is one step whose result and      *)
(*                 duration are chosen by the environment.                 *)
(*   SpecHttp      one http.request() call, one step per loop iteration.   *)
(*   SpecSse       one stream_sse() generator and its consumer: one step   *)
(*                 per connect attempt, per readline, per yielded event.   *)
(*   SpecDelay, SpecInterval, SpecParse, SpecExtract, SpecMatch,           *)
(*   SpecValidate  one call of a function (_get_retry_delay,               *)
(*                 _get_poll_interval, _parse_sse_lines, _extract_report,  *)
(*                 match_topics, validate_citations) on bounded inputs.    *)
(*                                                                         *)
(* Time is in whole seconds in SpecResearch and in ticks (Ticks to the     *)
(* second) in the others: the jitter of a delay is a fraction of a second. *)
(* A str is a sequence of characters; an optional value is a sequence of   *)
(* length 0 (absent) or 1.                                                 *)
(***************************************************************************)
EXTENDS Integers, Sequences, FiniteSets, TLC

VARIABLES
    \* ---- research() (gemini_dr.py, openai_dr.py)
    provider,       \* "gemini" | "openai": which module's research() runs
    pc,             \* position in research()
    now,            \* time.time(), seconds
    stream_start,   \* _stream_response: start_time
    poll_start,     \* _poll_response_fallback / _poll_response: start_time
    report_parts,   \* _stream_response: report_parts
    interaction_id, \* research: interaction_id / response_id
    model,          \* research: model (openai), AGENT (gemini)
    outcome,        \* what research() returned or raised
    submit_doc,     \* research: resp, the submission response
    poll_doc,       \* the last status document http.get returned
    stream_end,     \* how _stream_response ended
    trace,          \* history: requests issued, ceiling checks that fired
    \* ---- http.request() (http.py)
    h_pc,           \* "loop" | "done"
    h_retries,      \* request: retries
    h_attempt,      \* request: attempt
    h_last_error,   \* request: last_error
    h_log,          \* history: one entry per network attempt
    h_outcome,      \* what request() returned or raised
    \* ---- one call of a function (_get_retry_delay, _get_poll_interval,
    \* ---- _parse_sse_lines, _extract_report, match_topics, validate_citations)
    d_in,           \* the arguments (and the value random.random() returns)
    d_out,          \* the returned value
    \* ---- stream_sse() (http.py)
    s_pc,           \* "connect" | "read" | "yield" | "done"
    s_attempt,      \* stream_sse: attempt
    s_last_error,   \* stream_sse: last_error
    s_log,          \* history: one entry per connect attempt of the connect loop
    s_opens,        \* history: the urlopen calls that returned a response
    s_conn,         \* response: "none" | "open" | "closed"
    s_buffer,       \* stream_sse: buffer
    s_pending,      \* stream_sse: the events of "for event in events" not yet yielded
    s_wire,         \* history: the lines readline has returned, whether it has
                    \* returned EOF, the exception a read has raised
    s_yielded,      \* history: the events the consumer has received
    s_outcome       \* how the generator ended

rVars == <<provider, pc, now, stream_start, poll_start, report_parts,
           interaction_id, model, outcome, submit_doc, poll_doc, stream_end,
           trace>>
hVars == <<h_pc, h_retries, h_attempt, h_last_error, h_log, h_outcome>>
dVars == <<d_in, d_out>>
sVars == <<s_pc, s_attempt, s_last_error, s_log, s_opens, s_conn, s_buffer,
           s_pending, s_wire, s_yielded, s_outcome>>
vars == <<rVars, hVars, dVars, sVars>>

-----------------------------------------------------------------------------
(* Values shared by the models *)

\* Python None where an int or a float is expected
None == -1

\* a missing dict key (of a str value)
Absent == "<absent>"

Min(a, b) == IF a <= b THEN a ELSE b

RECURSIVE Pow2(_)
Pow2(k) == IF k = 0 THEN 1 ELSE 2 * Pow2(k - 1)

\* ''.join(parts)
RECURSIVE Join(_)
Join(parts) == IF parts = <<>> THEN <<>> ELSE Head(parts) \o Join(Tail(parts))

\* dict.get(key, default) on an optional value
Get(opt, default) == IF opt = <<>> THEN default ELSE opt[1]


-----------------------------------------------------------------------------
(* Program constants *)

\* gemini_dr.py: MAX_TIMEOUT_SECONDS = 1800
MAX_TIMEOUT_SECONDS == 1800
\* gemini_dr.py: ZOMBIE_THRESHOLD = 300
ZOMBIE_THRESHOLD == 300
\* openai_dr.py: MAX_POLL_SECONDS = 1800
MAX_POLL_SECONDS == 1800
\* gemini_dr.py: AGENT
AGENT == "deep-research-pro-preview-12-2025"
\* openai_dr.py: PRIMARY_MODEL, FALLBACK_MODEL
PRIMARY_MODEL == "o3-deep-research-2025-06-26"
FALLBACK_MODEL == "o4-mini-deep-research-2025-06-26"

-----------------------------------------------------------------------------
(* Bounds of the research model *)

\* at most this many non-empty text deltas are accumulated by one stream
MaxParts == 2

\* at most this many transport calls of one research() call are slow
MaxSlow == 1

\* the body of the stream loop handles one event within this many seconds
MaxHandleTime == 1

\* how long one transport call (with its retries) may take, seconds: no time,
\* or the time of a slow one
NetDurations == {0, 30}
\* the time between two events of a stream, seconds (never 0: reading an
\* event takes time)
StreamGaps == {500, 1000}
\* the status codes with which a transport call may fail (None: no status)
HttpFailCodes == {None, 404, 429, 500}

-----------------------------------------------------------------------------
(* Status documents (the JSON dicts http.post / http.get return) *)

\* an element of "outputs", or the "result" value, of a gemini document
Item(kind, text, content) == [kind |-> kind, text |-> text, content |-> content]
NoItem == Item("absent", <<>>, <<>>)

\* the "error" value of a document
ErrVal(kind, message) == [kind |-> kind, message |-> message]
NoErr == ErrVal("absent", Absent)

Doc(name, id, iid, status, mstatus, outputs, result, output, error) ==
    [name |-> name, id |-> id, interactionId |-> iid, status |-> status,
     mstatus |-> mstatus, outputs |-> outputs, result |-> result,
     output |-> output, error |-> error, sources |-> <<>>]

\* a document that carries the structured citation list "sources" (the URLs)
WithSources(doc, sources) == [doc EXCEPT !.sources = sources]

\* no document (a variable that holds none)
NoDoc == Doc(Absent, Absent, Absent, "<none>", Absent, <<>>, NoItem, <<>>, NoErr)

\* gemini: the (outputs, result, sources) shapes a completed document may
\* have; the words http://... of a text are its URLs
GeminiBodies ==
    { << <<>>, NoItem, <<>> >>,
      << <<Item("dict", << <<>> >>, << <<"a">> >>),
           Item("dict", << <<"a", "http://u3", "http://u4", "http://u3">> >>, <<>>)>>,
         NoItem, <<>> >>,
      << <<Item("dict", <<>>, <<>>)>>, Item("dict", <<>>, << <<"b", "http://u3">> >>),
         <<"u1", "u2">> >> }

\* gemini: where a document may carry its status
GeminiStatusShapes(st) == { <<st, Absent>>, <<Absent, st>> }

\* gemini: where a submission response may carry the identifier
GeminiIdShapes ==
    { <<"i1", Absent, Absent>>, <<Absent, "i1", Absent>>, <<Absent, Absent, "i1">>,
      <<Absent, Absent, Absent>>, <<"", "i1", Absent>>, <<Absent, "", "i1">> }

ErrShapes == { NoErr, ErrVal("dict", "boom"), ErrVal("str", "oops") }

\* gemini: the responses to the submission
GeminiSubmitDocs ==
    { WithSources(Doc(i[1], i[2], i[3], s[1], s[2], b[1], b[2], <<>>, NoErr), b[3]) :
        i \in GeminiIdShapes,
        s \in GeminiStatusShapes("completed") \cup {<<"COMPLETED", Absent>>},
        b \in GeminiBodies }
    \cup
    { Doc(i[1], i[2], i[3], s, Absent, <<>>, NoItem, <<>>, NoErr) :
        i \in GeminiIdShapes, s \in {"in_progress", Absent} }

\* gemini: the status documents a poll may return
GeminiPollDocs ==
    { WithSources(Doc("i1", Absent, Absent, "completed", Absent, b[1], b[2], <<>>, NoErr),
                  b[3]) :
        b \in GeminiBodies }
    \cup
    { Doc("i1", Absent, Absent, Absent, "COMPLETED", <<>>, NoItem, <<>>, NoErr),
      Doc("i1", Absent, Absent, "failed", Absent, <<>>, NoItem, <<>>, ErrVal("dict", "boom")),
      Doc("i1", Absent, Absent, "FAILED", Absent, <<>>, NoItem, <<>>, ErrVal("str", "oops")),
      Doc("i1", Absent, Absent, Absent, "failed", <<>>, NoItem, <<>>, NoErr) }
    \cup
    { Doc("i1", Absent, Absent, s, Absent, <<>>, NoItem, <<>>, NoErr) :
        s \in {"cancelled", "CANCELLED", "incomplete", "in_progress", Absent} }

\* openai: an element of "output" and a block of its "content"
Block(type, text) == [type |-> type, text |-> text]
OutItem(type, content) == [type |-> type, content |-> content]

\* openai: the "output" shapes a completed document may have
OpenaiBodies ==
    { <<>>,
      << OutItem("reasoning", <<>>), OutItem("message", <<Block("output_text", << <<"a">> >>)>>) >>,
      << OutItem("message", <<Block("output_text", << <<"a">> >>), Block("output_text", << <<"b">> >>)>>) >> }

OpenaiDoc(id, status, output, error) ==
    Doc(Absent, id, Absent, status, Absent, <<>>, NoItem, output, error)

\* openai: the responses to the submission
OpenaiSubmitDocs ==
    { OpenaiDoc(i, "completed", b, NoErr) : i \in {"r1", "", Absent}, b \in OpenaiBodies }
    \cup
    { OpenaiDoc(i, s, <<>>, NoErr) : i \in {"r1", "", Absent}, s \in {"queued", Absent} }

\* openai: the status documents a poll may return
OpenaiPollDocs ==
    { OpenaiDoc("r1", "completed", b, NoErr) : b \in OpenaiBodies }
    \cup
    { OpenaiDoc("r1", "failed", <<>>, e) : e \in ErrShapes }
    \cup
    { OpenaiDoc("r1", s, <<>>, NoErr) :
        s \in {"incomplete", "cancelled", "queued", "expired", Absent} }

-----------------------------------------------------------------------------
(* Pure functions of the provider clients *)

\* a variant whose first window includes its end
gemini_get_poll_interval_Late(elapsed) ==
    IF elapsed <= 120 THEN 5
    ELSE IF elapsed < 600 THEN 15
    ELSE 30

\* gemini_dr._get_poll_interval
gemini_get_poll_interval(elapsed) ==
    IF elapsed < 120 THEN 5
    ELSE IF elapsed < 600 THEN 15
    ELSE 30

\* openai_dr._get_poll_interval
openai_get_poll_interval(elapsed) ==
    IF elapsed < 120 THEN 5
    ELSE IF elapsed < 600 THEN 15
    ELSE 30

\* gemini: resp.get("status", resp.get("metadata", {}).get("status", ""))
GeminiStatus(resp) ==
    IF resp.status # Absent THEN resp.status
    ELSE IF resp.mstatus # Absent THEN resp.mstatus
    ELSE ""

\* openai: resp.get("status", "")
OpenaiStatus(resp) == IF resp.status # Absent THEN resp.status ELSE ""

\* gemini: resp.get("name", resp.get("id", resp.get("interactionId", "")))
GeminiInteractionId(resp) ==
    IF resp.name # Absent THEN resp.name
    ELSE IF resp.id # Absent THEN resp.id
    ELSE IF resp.interactionId # Absent THEN resp.interactionId
    ELSE ""

\* openai: resp.get("id"), None read as the empty identifier (both are falsy)
OpenaiResponseId(resp) == IF resp.id # Absent THEN resp.id ELSE ""

\* error.get("message", "Unknown error") if isinstance(error, dict) else str(error)
\* (an absent "error" is the default {})
PollErrorMessage(resp) ==
    IF resp.error.kind \in {"absent", "dict"}
    THEN (IF resp.error.message # Absent THEN resp.error.message ELSE "Unknown error")
    ELSE resp.error.message

\* d.get("text", d.get("content", ""))
TextOrContent(d) == Get(d.text, Get(d.content, <<>>))

\* gemini_dr._extract_report: the report text
GeminiExtractReport(response) ==
    LET outputs == response.outputs
        last_output == outputs[Len(outputs)]
        report1 == IF outputs # <<>>
                   THEN (IF last_output.kind = "dict" THEN TextOrContent(last_output)
                         ELSE IF last_output.kind = "str" THEN last_output.text[1]
                         ELSE <<>>)
                   ELSE <<>>
        result == response.result
    IN  IF report1 = <<>>
        THEN (IF result.kind \in {"absent", "dict"} THEN TextOrContent(result) ELSE report1)
        ELSE report1

\* openai_dr._extract_report: the text of the last output_text block of the
\* message items ("" when there is none)
RECURSIVE OpenaiBlocksReport(_, _)
OpenaiBlocksReport(content, report) ==
    IF content = <<>> THEN report
    ELSE OpenaiBlocksReport(Tail(content),
            IF Head(content).type = "output_text"
            THEN Get(Head(content).text, <<>>) ELSE report)

RECURSIVE OpenaiItemsReport(_, _)
OpenaiItemsReport(output, report) ==
    IF output = <<>> THEN report
    ELSE OpenaiItemsReport(Tail(output),
            IF Head(output).type = "message"
            THEN OpenaiBlocksReport(Head(output).content, report) ELSE report)

OpenaiExtractReport(response) == OpenaiItemsReport(response.output, <<>>)

-----------------------------------------------------------------------------
(* Outcomes of a research() call *)

Outcome(kind, cls, code, msg, elapsed, wrapped, report, mdl) ==
    [kind |-> kind, cls |-> cls, status_code |-> code, msg |-> msg,
     elapsed |-> elapsed, wrapped |-> wrapped, report |-> report, model |-> mdl,
     citations |-> <<>>]

\* research() has not returned
NoOutcome == Outcome("none", "", None, "", None, "", <<>>, "")

\* return report, citations, model: with an empty citation list
Returned(report, mdl) == Outcome("ok", "", None, "", None, "", report, mdl)

\* return report, citations, model
ReturnedWith(report, citations, mdl) ==
    [Returned(report, mdl) EXCEPT !.citations = citations]

\* errors.ProviderTimeoutError(provider, timeout, elapsed)
ProviderTimeoutError(elapsed) ==
    Outcome("error", "ProviderTimeoutError", None, "timed out", elapsed, "", <<>>, "")

\* errors.ProviderAPIError(provider, status_code, body, elapsed)
ProviderAPIError(code, body, elapsed) ==
    Outcome("error", "ProviderAPIError", code, body, elapsed, "", <<>>, "")

\* http.HTTPError(message, status_code): it has no elapsed attribute
HTTPError(code, wrapped) ==
    Outcome("error", "HTTPError", code, "", None, wrapped, <<>>, "")

\* an exception of another class that a transport call lets escape
OtherError(cls) == Outcome("error", cls, None, "", None, "", <<>>, "")

\* what a transport call (http.post, http.get, the stream connect) may raise:
\* HTTPError with or without a status code, or an exception request() does not
\* catch (the ValueError of time.sleep, a UnicodeDecodeError)
NetFailures == { HTTPError(c, "") : c \in HttpFailCodes } \cup { OtherError("ValueError") }
\* what a failed status fetch of a polling loop raises; the loops handle no
\* exception, so two failures stand for all
PollFailures == { HTTPError(None, ""), HTTPError(500, "") }

-----------------------------------------------------------------------------
(* Stream events (the dicts http.stream_sse yields), as _stream_response    *)
(* reads them: the event type, what json.loads makes of the data string,    *)
(* and the "type", "text" and "message" keys of a dict payload              *)

Event(type, payload, dtype, dtext, dmsg) ==
    [event |-> type, payload |-> payload, dtype |-> dtype, dtext |-> dtext, dmsg |-> dmsg]

\* payload: "empty" (no data), "invalid" (not JSON), "nondict" (JSON, but
\* no object), "dict"
StreamEvents ==
    { Event("interaction.start", "dict", "", <<>>, Absent),
      Event("content.delta", "dict", "text", <<"a">>, Absent),
      Event("content.delta", "dict", "text", <<"http://u3">>, Absent),
      Event("content.delta", "dict", "text", <<>>, Absent),
      Event("content.delta", "dict", "thought_summary", <<"a">>, Absent),
      Event("content.delta", "invalid", "", <<>>, Absent),
      Event("content.delta", "nondict", "", <<>>, Absent),
      Event("content.delta", "empty", "", <<>>, Absent),
      Event("interaction.complete", "dict", "", <<>>, Absent),
      Event("interaction.completed", "empty", "", <<>>, Absent),
      Event("interaction.complete", "invalid", "", <<>>, Absent),
      Event("error", "dict", "", <<>>, "boom"),
      Event("error", "dict", "", <<>>, Absent),
      Event("error", "invalid", "", <<>>, Absent),
      Event("error", "nondict", "", <<>>, Absent),
      Event("ping", "empty", "", <<>>, Absent) }

-----------------------------------------------------------------------------
(* research(): state *)

Trace0 == [submits |-> 0, streams |-> 0, polls |-> 0, cites |-> 0, slow |-> 0,
           ceiling |-> FALSE, last_poll_at |-> None, stalled |-> None,
           arrived |-> <<>>, cites_failed |-> FALSE, poll_failed |-> FALSE,
           structured |-> FALSE, zombie |-> FALSE, dropped |-> FALSE]

\* how _stream_response ended: it returned, or it raised an HTTPError with
\* this status code, which wraps an exception of class "wrapped" with message
\* msg ("" when it wraps none)
StreamEnd(how, code, wrapped, msg) ==
    [how |-> how, status_code |-> code, wrapped |-> wrapped, msg |-> msg]

\* _stream_response has not ended
StreamRunning == StreamEnd("none", None, "", "")

\* research() reads no more than the status code of the HTTPError; what the
\* error wraps is only logged, before the first status fetch
Settled(end) == StreamEnd(end.how, end.status_code, "", "")

\* the state of the call as one record
S == [pc |-> pc, now |-> now, stream_start |-> stream_start,
      poll_start |-> poll_start, report_parts |-> report_parts,
      interaction_id |-> interaction_id, model |-> model, outcome |-> outcome,
      submit_doc |-> submit_doc, poll_doc |-> poll_doc,
      stream_end |-> stream_end, trace |-> trace]

Apply(n) ==
    /\ pc' = n.pc
    /\ now' = n.now
    /\ stream_start' = n.stream_start
    /\ poll_start' = n.poll_start
    /\ report_parts' = n.report_parts
    /\ interaction_id' = n.interaction_id
    /\ model' = n.model
    /\ outcome' = n.outcome
    /\ submit_doc' = n.submit_doc
    /\ poll_doc' = n.poll_doc
    /\ stream_end' = n.stream_end
    /\ trace' = n.trace
    /\ UNCHANGED <<provider, hVars, dVars, sVars>>

\* no research call, no request() call, no _get_retry_delay call under way
NoResearch ==
    /\ provider = "" /\ pc = "idle" /\ now = 0 /\ stream_start = None
    /\ poll_start = None /\ report_parts = <<>> /\ interaction_id = ""
    /\ model = "" /\ outcome = NoOutcome /\ submit_doc = NoDoc /\ poll_doc = NoDoc
    /\ stream_end = StreamRunning /\ trace = Trace0

NoRequest ==
    /\ h_pc = "idle" /\ h_retries = 0 /\ h_attempt = 0 /\ h_last_error = <<>>
    /\ h_log = <<>> /\ h_outcome = <<>>

NoDelayCall == d_in = <<>> /\ d_out = <<>>

NoStream ==
    /\ s_pc = "idle" /\ s_attempt = 0 /\ s_last_error = <<>> /\ s_log = <<>>
    /\ s_opens = 0 /\ s_conn = "none" /\ s_buffer = <<>> /\ s_pending = <<>>
    /\ s_wire = [lines |-> <<>>, eof |-> FALSE, failed |-> ""] /\ s_yielded = <<>> /\ s_outcome = <<>>

InitResearch ==
    /\ NoRequest /\ NoDelayCall /\ NoStream
    /\ provider \in {"gemini", "openai"}
    /\ pc = "submit"
    /\ now = 0
    /\ stream_start = None
    /\ poll_start = None
    /\ report_parts = <<>>
    /\ interaction_id = ""
    /\ model = IF provider = "gemini" THEN AGENT ELSE PRIMARY_MODEL
    /\ outcome = NoOutcome
    /\ submit_doc = NoDoc
    /\ poll_doc = NoDoc
    /\ stream_end = StreamRunning
    /\ trace = Trace0

\* the durations the next transport call may take
Durations == IF trace.slow < MaxSlow THEN NetDurations ELSE {0}

\* the durations the next status fetch of a polling loop may take: the slow
\* fetches of a loop are among its first MaxSlow ones
PollDurations == IF trace.polls < MaxSlow THEN Durations ELSE {0}

\* the state after a transport call that took d seconds; the submission
\* response is not read again once a later request has been made
Spend(d) == [S EXCEPT !.now = now + d, !.trace.slow = IF d > 0 THEN @ + 1 ELSE @,
                      !.submit_doc = NoDoc]

\* a variant in which research() goes on after its outcome
Finish_GoesOn(st, o) == [st EXCEPT !.outcome = o]

\* research() returns or raises o
Finish(st, o) == [st EXCEPT !.pc = "done", !.outcome = o]

\* a variant in which the polling loop sleeps and polls again after a failed
\* status fetch
OnPollFailure_Retry(st, f) == [st EXCEPT !.trace.poll_failed = TRUE, !.now = @ + 5]

\* a variant in which a failed status fetch sends the call back to the stream
OnPollFailure_Restream(st, f) ==
    [st EXCEPT !.trace.poll_failed = TRUE, !.pc = "stream_open", !.stream_start = st.now]

\* the polling loops have no except clause: the exception of a failed status
\* fetch leaves the loop and research()
OnPollFailure(st, f) ==
    Finish([st EXCEPT !.trace.poll_failed = TRUE, !.poll_doc = NoDoc], f)

-----------------------------------------------------------------------------
(* gemini_dr.research() *)

\* a variant that knows the lower-case spelling only
GeminiIsCompleted_LowerCaseOnly(status) == status = "completed"

\* status in ("completed", "COMPLETED")
GeminiIsCompleted(status) == status \in {"completed", "COMPLETED"}

\* a variant that falls back on errors without status code only
FallsBackToPolling_NoStatusOnly(status_code) == status_code = None

\* research: e.status_code is None or e.status_code >= 500
FallsBackToPolling(status_code) == status_code = None \/ status_code >= 500

\* a variant that lets the loop run at the ceiling itself
GeminiCeilingReached_Strict(elapsed) == elapsed > MAX_TIMEOUT_SECONDS

\* _stream_response, _poll_response_fallback: elapsed >= MAX_TIMEOUT_SECONDS
GeminiCeilingReached(elapsed) == elapsed >= MAX_TIMEOUT_SECONDS

\* _stream_response: http.stream_sse(url, headers=headers, timeout=...), the
\* socket timeout of every read of the stream
StreamSocketTimeout == MAX_TIMEOUT_SECONDS

\* _stream_response: silence_duration > ZOMBIE_THRESHOLD
ZombieDetected(silence_duration) == silence_duration > ZOMBIE_THRESHOLD

\* _stream_response's except clauses: an HTTPError is re-raised as it is, any
\* other exception (a ProviderError too) is wrapped in an HTTPError without
\* status code
StreamResponseRaises(e) ==
    IF e.cls = "HTTPError" THEN e ELSE [HTTPError(None, e.cls) EXCEPT !.msg = e.msg]

\* research: call _poll_response_fallback (start_time = time.time()); the
\* locals of _stream_response are gone
EnterPolling(st) ==
    [st EXCEPT !.pc = "poll", !.poll_start = st.now, !.report_parts = <<>>,
               !.trace.arrived = <<>>, !.trace.dropped = st.report_parts # <<>>]

\* a variant that takes the text of a failed stream for the report
OnStreamError_KeepsText(st, e) ==
    LET st1 == [st EXCEPT !.stream_end = StreamEnd("raised", e.status_code, e.wrapped, e.msg),
                          !.stream_start = None]
    IN  IF FallsBackToPolling(e.status_code)
        THEN (IF Join(st.report_parts) # <<>>
              THEN [st1 EXCEPT !.pc = "citations"] ELSE EnterPolling(st1))
        ELSE Finish([st1 EXCEPT !.report_parts = <<>>, !.trace.arrived = <<>>], e)

\* research: _stream_response raised e (an HTTPError)
OnStreamError(st, e) ==
    LET st1 == [st EXCEPT !.stream_end = StreamEnd("raised", e.status_code, e.wrapped, e.msg),
                          !.stream_start = None]
    IN  IF FallsBackToPolling(e.status_code)
        THEN EnterPolling(st1)
        ELSE Finish([st1 EXCEPT !.report_parts = <<>>, !.trace.arrived = <<>>], e)

\* research: _stream_response returned ''.join(report_parts); "if report:"
OnStreamReturn(st) ==
    LET st1 == [st EXCEPT !.stream_end = StreamEnd("returned", None, "", ""),
                          !.stream_start = None]
    IN  IF Join(st.report_parts) # <<>>
        THEN [st1 EXCEPT !.pc = "citations"]
        ELSE EnterPolling(st1)

\* the documents the citations fetch may return: "sources" and the report
\* text of a dict, or a JSON value that is no dict
CitationDoc(kind, sources, report) == [kind |-> kind, sources |-> sources, report |-> report]

CitationDocs ==
    { CitationDoc("dict", <<>>, <<>>),
      CitationDoc("dict", <<"u1", "u2">>, <<"a">>),
      CitationDoc("dict", <<>>, <<"a", "http://u3", "http://u4", "http://u3">>),
      CitationDoc("nondict", <<>>, <<>>) }

\* the words of a report that re.findall(r'https?://...') finds
IsUrl(word) == word \in {"http://u3", "http://u4"}

\* _extract_report: the inline URLs of the report, each once, in the order of
\* their first occurrence
RECURSIVE InlineUrls(_, _)
InlineUrls(report, seen) ==
    IF report = <<>> THEN <<>>
    ELSE LET w == Head(report) IN
         IF IsUrl(w) /\ w \notin seen
         THEN <<w>> \o InlineUrls(Tail(report), seen \cup {w})
         ELSE InlineUrls(Tail(report), seen)

\* _extract_report: the citations of a document: its structured sources,
\* else the inline URLs of its report
GeminiExtractCitations(doc) ==
    IF doc.sources # <<>> THEN doc.sources ELSE InlineUrls(doc.report, {})

\* research: report, citations = _extract_report(resp); return report,
\* citations, AGENT: of the submission response or the completed snapshot
GeminiReturn(resp) ==
    LET report == GeminiExtractReport(resp) IN
    ReturnedWith(report,
                 GeminiExtractCitations(CitationDoc("dict", resp.sources, report)), AGENT)

\* the call has extracted the citations of a document: whether the document
\* carried structured citation data
Extracted(st, sources) == [st EXCEPT !.trace.structured = sources # <<>>]

\* research: resp = _submit_request(...), the identifier, the completed check
GeminiSubmit ==
    /\ provider = "gemini" /\ pc = "submit"
    /\ \E d \in Durations :
         LET st == [Spend(d) EXCEPT !.trace.submits = @ + 1] IN
         \/ \E f \in NetFailures : Apply(Finish(st, f))
         \/ \E resp \in GeminiSubmitDocs :
              LET id == GeminiInteractionId(resp)
                  st1 == [st EXCEPT !.submit_doc = resp]
              IN  IF id = ""
                  THEN Apply(Finish(st1, ProviderAPIError(0, "No interaction ID returned", 0)))
                  ELSE IF GeminiIsCompleted(GeminiStatus(resp))
                  THEN Apply(Finish(Extracted(st1, resp.sources), GeminiReturn(resp)))
                  ELSE Apply([st1 EXCEPT !.pc = "stream_open", !.interaction_id = id,
                                         !.stream_start = st.now])

\* _stream_response: the first next() of http.stream_sse connects
GeminiStreamConnect ==
    /\ provider = "gemini" /\ pc = "stream_open"
    /\ \E d \in Durations :
         LET st == [Spend(d) EXCEPT !.trace.streams = @ + 1] IN
         \/ Apply([st EXCEPT !.pc = "stream"])
         \/ \E f \in NetFailures : Apply(OnStreamError(st, StreamResponseRaises(f)))

\* a variant that puts a new text in front of the earlier ones
AccumulateText_InFront(parts, text) == <<text>> \o parts

\* _stream_response: report_parts.append(text)
AccumulateText(parts, text) == Append(parts, text)

\* a variant that skips undecodable content.delta events only
SkipsEvent_DeltaOnly(ev) == ev.payload = "invalid" /\ ev.event = "content.delta"

\* _stream_response: except json.JSONDecodeError: continue
SkipsEvent(ev) == ev.payload = "invalid"

\* a variant that never resets the timestamp: silence since the start
LastEventTime_AtStart(st) == st.stream_start

\* _stream_response: last_event_time = time.time(), the first statement of
\* the loop body (st.now is the time the event arrived)
LastEventTime(st) == st.now

\* _stream_response: the body of the for loop, for one event. Handling the
\* event takes up to MaxHandleTime seconds, which the silence check at the
\* end of the body measures (the clock of the model advances with the wait
\* for the next event).
StreamHandle(st, ev) ==
    LET elapsed == st.now - st.stream_start
        raise(e) == OnStreamError(st, StreamResponseRaises(e))
        last_event_time == LastEventTime(st)
        after(st2) == IF \E h \in 0 .. MaxHandleTime :
                            ZombieDetected((st.now + h) - last_event_time)
                      THEN OnStreamError([st2 EXCEPT !.trace.zombie = TRUE],
                               StreamResponseRaises(ProviderTimeoutError(elapsed)))
                      ELSE st2
    IN  IF GeminiCeilingReached(elapsed)
        THEN OnStreamError([st EXCEPT !.trace.ceiling = TRUE],
                 StreamResponseRaises(ProviderTimeoutError(elapsed)))
        ELSE IF SkipsEvent(ev) THEN st
        ELSE IF ev.event = "interaction.start" THEN after(st)
        ELSE IF ev.event = "content.delta"
        THEN (IF ev.payload = "nondict" THEN raise(OtherError("AttributeError"))
              ELSE IF ev.payload = "dict" /\ ev.dtype = "text" /\ ev.dtext # <<>>
              THEN after([st EXCEPT !.report_parts = AccumulateText(@, ev.dtext)])
              ELSE after(st))
        ELSE IF ev.event \in {"interaction.complete", "interaction.completed"}
        THEN OnStreamReturn(st)
        ELSE IF ev.event = "error"
        THEN (IF ev.payload = "nondict" THEN raise(OtherError("AttributeError"))
              ELSE raise(ProviderAPIError(0,
                       IF ev.payload = "dict" /\ ev.dmsg # Absent THEN ev.dmsg
                       ELSE "Unknown error", elapsed)))
        ELSE after(st)

\* _stream_response: http.stream_sse yields an event
GeminiStreamEvent ==
    /\ provider = "gemini" /\ pc = "stream"
    /\ \E gap \in StreamGaps, ev \in StreamEvents :
         /\ (ev.event = "content.delta" /\ ev.dtype = "text" /\ ev.dtext # <<>>)
               => Len(report_parts) < MaxParts
         /\ Apply(StreamHandle([S EXCEPT !.now = now + gap,
                                          !.trace.arrived = Append(@, ev)], ev))

\* _stream_response: http.stream_sse ends (EOF) before a complete event
GeminiStreamEOF ==
    /\ provider = "gemini" /\ pc = "stream"
    /\ \E gap \in StreamGaps :
         Apply(OnStreamError([S EXCEPT !.now = now + gap], HTTPError(None, "")))

\* _stream_response: http.stream_sse raises: a read error or an undecodable
\* line after some gap, or the socket timeout after StreamSocketTimeout
\* seconds of silence (stream_sse wraps it into an HTTPError)
GeminiStreamReadError ==
    /\ provider = "gemini" /\ pc = "stream"
    /\ \/ \E gap \in StreamGaps,
             f \in {HTTPError(None, ""), OtherError("UnicodeDecodeError")} :
            Apply(OnStreamError([S EXCEPT !.now = now + gap], StreamResponseRaises(f)))
       \/ LET at == now + StreamSocketTimeout IN
          Apply(OnStreamError([S EXCEPT !.now = at, !.trace.stalled = at - stream_start],
                              StreamResponseRaises(HTTPError(None, ""))))

\* research: except Exception: return report, [], AGENT
CitationsFailure(report, f) == Returned(report, AGENT)

\* research: the status fetch for the citations: the streamed report is
\* returned with the citations of the fetched document, or, when the fetch or
\* the extraction raises, with none
GeminiCitations ==
    /\ provider = "gemini" /\ pc = "citations"
    /\ \E d \in Durations :
         LET st == [Spend(d) EXCEPT !.trace.cites = @ + 1]
             report == Join(report_parts)
         IN  \/ \E f \in NetFailures :
                  Apply(Finish([st EXCEPT !.trace.cites_failed = TRUE],
                               CitationsFailure(report, f)))
             \/ \E completed \in CitationDocs :
                  IF completed.kind = "dict"
                  THEN Apply(Finish(Extracted(st, completed.sources),
                                    ReturnedWith(report, GeminiExtractCitations(completed),
                                                 AGENT)))
                  ELSE Apply(Finish([st EXCEPT !.trace.cites_failed = TRUE],
                                    CitationsFailure(report, OtherError("AttributeError"))))

\* _poll_response_fallback: one iteration of the while loop; resp holds the
\* latest status document until the loop is left by an exception of its own
GeminiPoll ==
    /\ provider = "gemini" /\ pc = "poll"
    /\ LET elapsed == now - poll_start IN
       IF GeminiCeilingReached(elapsed)
       THEN Apply(Finish([S EXCEPT !.trace.ceiling = TRUE, !.poll_doc = NoDoc],
                         ProviderTimeoutError(elapsed)))
       ELSE \E d \in PollDurations :
            LET st == [Spend(d) EXCEPT !.trace.polls = @ + 1,
                                !.trace.last_poll_at = now,
                                !.trace.dropped = FALSE,
                                !.stream_end = Settled(@)] IN
            \/ \E f \in PollFailures : Apply(OnPollFailure(st, f))
            \/ \E resp \in GeminiPollDocs :
                 LET status == GeminiStatus(resp)
                     st1 == [st EXCEPT !.poll_doc = resp]
                 IN  IF GeminiIsCompleted(status)
                     THEN Apply(Finish(Extracted(st1, resp.sources), GeminiReturn(resp)))
                     ELSE IF status \in {"failed", "FAILED"}
                     THEN Apply(Finish(st1, ProviderAPIError(0, PollErrorMessage(resp), elapsed)))
                     ELSE IF status \in {"cancelled", "CANCELLED"}
                     THEN Apply(Finish(st1, ProviderAPIError(0, "was cancelled", elapsed)))
                     ELSE Apply([st1 EXCEPT !.now = @ + gemini_get_poll_interval(elapsed)])

-----------------------------------------------------------------------------
(* openai_dr.research() *)

\* _poll_response: elapsed >= MAX_POLL_SECONDS
OpenaiCeilingReached(elapsed) == elapsed >= MAX_POLL_SECONDS

\* research: after resp = _submit_request(...)
OpenaiAfterSubmit(st, resp) ==
    LET response_id == OpenaiResponseId(resp)
        st1 == [st EXCEPT !.submit_doc = resp]
    IN  IF response_id = ""
        THEN Finish(st1, ProviderAPIError(0, "No response ID returned", 0))
        ELSE IF OpenaiStatus(resp) = "completed"
        THEN Finish(st1, Returned(OpenaiExtractReport(resp), st.model))
        ELSE [st1 EXCEPT !.pc = "poll", !.interaction_id = response_id,
                         !.poll_start = st.now]

\* research: the submission with PRIMARY_MODEL; a 404 leads to a second
\* submission with FALLBACK_MODEL
OpenaiSubmit ==
    /\ provider = "openai" /\ pc = "submit"
    /\ \E d \in Durations :
         LET st == [Spend(d) EXCEPT !.trace.submits = @ + 1] IN
         \/ \E f \in NetFailures :
              IF f.cls = "HTTPError" /\ f.status_code = 404
              THEN Apply([st EXCEPT !.pc = "submit_fallback", !.model = FALLBACK_MODEL])
              ELSE Apply(Finish(st, f))
         \/ \E resp \in OpenaiSubmitDocs : Apply(OpenaiAfterSubmit(st, resp))

\* research: the submission with FALLBACK_MODEL; its errors propagate
OpenaiSubmitFallback ==
    /\ provider = "openai" /\ pc = "submit_fallback"
    /\ \E d \in Durations :
         LET st == [Spend(d) EXCEPT !.trace.submits = @ + 1] IN
         \/ \E f \in NetFailures : Apply(Finish(st, f))
         \/ \E resp \in OpenaiSubmitDocs : Apply(OpenaiAfterSubmit(st, resp))

\* _poll_response: one iteration of the while loop
OpenaiPoll ==
    /\ provider = "openai" /\ pc = "poll"
    /\ LET elapsed == now - poll_start IN
       IF OpenaiCeilingReached(elapsed)
       THEN Apply(Finish([S EXCEPT !.trace.ceiling = TRUE, !.poll_doc = NoDoc],
                         ProviderTimeoutError(elapsed)))
       ELSE \E d \in PollDurations :
            LET st == [Spend(d) EXCEPT !.trace.polls = @ + 1,
                                !.trace.last_poll_at = now] IN
            \/ \E f \in PollFailures : Apply(OnPollFailure(st, f))
            \/ \E resp \in OpenaiPollDocs :
                 LET status == OpenaiStatus(resp)
                     st1 == [st EXCEPT !.poll_doc = resp]
                 IN  IF status = "completed"
                     THEN Apply(Finish(st1, Returned(OpenaiExtractReport(resp), model)))
                     ELSE IF status = "failed"
                     THEN Apply(Finish(st1, ProviderAPIError(0, PollErrorMessage(resp), elapsed)))
                     ELSE IF status = "incomplete"
                     THEN Apply(Finish(st1, ProviderAPIError(0,
                              "returned incomplete (may have hit output limit)", elapsed)))
                     ELSE IF status = "cancelled"
                     THEN Apply(Finish(st1, ProviderAPIError(0, "was cancelled", elapsed)))
                     ELSE Apply([st1 EXCEPT !.now = @ + openai_get_poll_interval(elapsed)])

-----------------------------------------------------------------------------
(* The research specification *)

NextResearch ==
    \/ GeminiSubmit
    \/ GeminiStreamConnect
    \/ GeminiStreamEvent
    \/ GeminiStreamEOF
    \/ GeminiStreamReadError
    \/ GeminiCitations
    \/ GeminiPoll
    \/ OpenaiSubmit
    \/ OpenaiSubmitFallback
    \/ OpenaiPoll

\* a call that can take a step takes it: the call is one sequential thread,
\* every network request returns or fails, and the clock advances
SpecResearch ==
    /\ InitResearch
    /\ [][NextResearch]_vars
    /\ WF_vars(NextResearch)

-----------------------------------------------------------------------------
(* lib/http.py: constants, in seconds as in the source *)

MAX_RETRIES == 3
RETRY_BASE_DELAY == 2
RETRY_429_BASE_DELAY == 5
RETRY_MAX_DELAY == 60

(* Bounds of the transport model *)

\* the resolution of a delay: ticks per second
Ticks == 1000
\* random.random() returns r / RandomSteps for some r in 0 .. RandomSteps - 1
RandomSteps == 2
\* the largest value of the retries argument of request()
MaxRetriesArg == 3
\* the largest attempt index _get_retry_delay is applied to
MaxAttemptIndex == 6

\* the numeric Retry-After values a server sends, seconds (finite numbers:
\* the texts "nan" and "inf", which float() accepts too, are left out)
RetryAfterSeconds == {-5, 0, 7, 61}

-----------------------------------------------------------------------------
(* http._get_retry_delay *)

\* _get_retry_delay(attempt, is_rate_limit, retry_after), in ticks;
\* retry_after is optional (<<>> is None) and in ticks; rnd / RandomSteps is
\* the value random.random() returns
get_retry_delay(attempt, is_rate_limit, retry_after, rnd) ==
    IF retry_after # <<>>
    THEN Min(retry_after[1], RETRY_MAX_DELAY * Ticks)
    ELSE LET base == IF is_rate_limit THEN RETRY_429_BASE_DELAY ELSE RETRY_BASE_DELAY
             delay0 == base * Ticks * Pow2(attempt)
             delay == Min(delay0, RETRY_MAX_DELAY * Ticks)
             jitter == (delay * rnd) \div (4 * RandomSteps)
         IN  delay + jitter

DelayInputs ==
    [attempt : 0 .. MaxAttemptIndex,
     is_rate_limit : BOOLEAN,
     retry_after : {<<>>} \cup { <<r * Ticks>> : r \in RetryAfterSeconds },
     rnd : 0 .. RandomSteps - 1]

InitDelay ==
    /\ NoResearch /\ NoRequest /\ NoStream
    /\ d_in \in DelayInputs
    /\ d_out = <<>>

\* the call delay = _get_retry_delay(...)
ApplyDelay ==
    /\ d_out = <<>>
    /\ d_out' = <<get_retry_delay(d_in.attempt, d_in.is_rate_limit, d_in.retry_after, d_in.rnd)>>
    /\ UNCHANGED <<d_in, rVars, hVars, sVars>>

NextDelay == ApplyDelay

SpecDelay == InitDelay /\ [][NextDelay]_vars

-----------------------------------------------------------------------------
(* _get_poll_interval of both provider clients, applied to one elapsed time *)

\* the largest elapsed time (whole seconds) the functions are applied to
MaxElapsed == 1800

IntervalInputs == [elapsed : 0 .. MaxElapsed]

InitInterval ==
    /\ NoResearch /\ NoRequest /\ NoStream
    /\ d_in \in IntervalInputs
    /\ d_out = <<>>

\* the calls gemini_dr._get_poll_interval(elapsed) and
\* openai_dr._get_poll_interval(elapsed)
ApplyInterval ==
    /\ d_out = <<>>
    /\ d_out' = <<[gemini |-> gemini_get_poll_interval(d_in.elapsed),
                   openai |-> openai_get_poll_interval(d_in.elapsed)]>>
    /\ UNCHANGED <<d_in, rVars, hVars, sVars>>

NextInterval == ApplyInterval

SpecInterval == InitInterval /\ [][NextInterval]_vars

-----------------------------------------------------------------------------
(* gemini_dr._extract_report as a function of the completed document *)

\* the longest "outputs" list of the documents _extract_report is applied to
MaxOutputs == 2

\* a dict whose "text" is absent, empty or t and whose "content" is absent,
\* empty or c
DictItems(t, c) ==
    { Item("dict", x, y) : x \in {<<>>, << <<>> >>, << <<t>> >>},
                           y \in {<<>>, << <<>> >>, << <<c>> >>} }

\* the elements of "outputs": a dict, a string (empty or not), or a value
\* that is neither
OutputItems ==
    DictItems("a", "b")
        \cup {Item("str", << <<>> >>, <<>>), Item("str", << <<"s">> >>, <<>>),
              Item("other", <<>>, <<>>)}

\* the "result" value: absent, a dict, or a value that is no dict
ResultItems == DictItems("c", "d") \cup {NoItem, Item("other", <<>>, <<>>)}

\* the completed documents: every "outputs" list of at most MaxOutputs
\* elements, with every "result"
ExtractInputs ==
    { Doc("i1", Absent, Absent, "completed", Absent, o, r, <<>>, NoErr) :
        o \in UNION { [1 .. k -> OutputItems] : k \in 0 .. MaxOutputs },
        r \in ResultItems }

InitExtract ==
    /\ NoResearch /\ NoRequest /\ NoStream
    /\ d_in \in [response : ExtractInputs]
    /\ d_out = <<>>

\* the call report, citations = _extract_report(response): the report
ApplyExtract ==
    /\ d_out = <<>>
    /\ d_out' = <<GeminiExtractReport(d_in.response)>>
    /\ UNCHANGED <<d_in, rVars, hVars, sVars>>

NextExtract == ApplyExtract

SpecExtract == InitExtract /\ [][NextExtract]_vars

-----------------------------------------------------------------------------
(* lib/matrix.py: match_topics as a function of the providers' topic lists *)

\* the most topics one provider's report has
MaxTopics == 2

\* the providers, in the insertion order of provider_topics
MatchProviders == 1 .. 2

\* the normalized headings (Topic.heading), as lists of words: abc and ab, and
\* ab and ba, are similar (Jaccard 2/3 and 1), c is similar to none
Headings == { <<"a", "b", "c">>, <<"a", "b">>, <<"b", "a">>, <<"c">> }

\* set(a.lower().split())
WordSet(heading) == { heading[i] : i \in DOMAIN heading }

\* _jaccard_similarity(a, b), as the fraction <<numerator, denominator>>
jaccard_similarity(a, b) ==
    LET words_a == WordSet(a)
        words_b == WordSet(b)
    IN  IF words_a = {} /\ words_b = {} THEN <<1, 1>>
        ELSE IF words_a = {} \/ words_b = {} THEN <<0, 1>>
        ELSE <<Cardinality(words_a \cap words_b), Cardinality(words_a \cup words_b)>>

\* score >= FUZZY_MATCH_THRESHOLD (0.60 = 3/5); the initial best_score lies
\* just below the threshold, so only such scores ever become the best
MeetsThreshold(score) == 5 * score[1] >= 3 * score[2]

\* score > best_score, for two fractions
Better(score, best_score) == score[1] * best_score[2] > best_score[1] * score[2]

\* _best_match: the loop over the candidates from index idx on; the result
\* is the index of the match, 0 for None
RECURSIVE BestMatchFrom(_, _, _, _, _, _)
BestMatchFrom(needle, candidates, used, idx, best_idx, best_score) ==
    IF idx > Len(candidates) THEN best_idx
    ELSE IF idx \in used
    THEN BestMatchFrom(needle, candidates, used, idx + 1, best_idx, best_score)
    ELSE IF needle = candidates[idx] THEN idx
    ELSE LET score == jaccard_similarity(needle, candidates[idx]) IN
         IF MeetsThreshold(score) /\ (best_idx = 0 \/ Better(score, best_score))
         THEN BestMatchFrom(needle, candidates, used, idx + 1, idx, score)
         ELSE BestMatchFrom(needle, candidates, used, idx + 1, best_idx, best_score)

\* _best_match(needle, candidates, used)
best_match(needle, candidates, used) ==
    BestMatchFrom(needle, candidates, used, 1, 0, <<0, 1>>)

\* match_topics: the body of the loop over the anchors, for the topic
\* anchor_idx of anchor_provider; a cluster maps each provider to the index
\* of its topic (0: None)
MatchAnchor(topics, st, anchor_provider, anchor_idx) ==
    IF anchor_idx \in st.used[anchor_provider] THEN st
    ELSE LET cluster == [ q \in MatchProviders |->
                            IF q = anchor_provider THEN anchor_idx
                            ELSE best_match(topics[anchor_provider][anchor_idx],
                                            topics[q], st.used[q]) ]
         IN  [used |-> [ q \in MatchProviders |->
                           st.used[q] \cup (IF cluster[q] # 0 THEN {cluster[q]} ELSE {}) ],
              clusters |-> Append(st.clusters, cluster)]

\* match_topics: the two loops, from topic anchor_idx of anchor_provider on
RECURSIVE MatchFrom(_, _, _, _)
MatchFrom(topics, st, anchor_provider, anchor_idx) ==
    IF anchor_provider > Len(topics) THEN st
    ELSE IF anchor_idx > Len(topics[anchor_provider])
    THEN MatchFrom(topics, st, anchor_provider + 1, 1)
    ELSE MatchFrom(topics, MatchAnchor(topics, st, anchor_provider, anchor_idx),
                   anchor_provider, anchor_idx + 1)

\* match_topics(provider_topics): the clusters
match_topics(topics) ==
    MatchFrom(topics, [used |-> [q \in MatchProviders |-> {}], clusters |-> <<>>], 1, 1).clusters

\* the topic lists of one provider
TopicLists == UNION { [1 .. k -> Headings] : k \in 0 .. MaxTopics }

InitMatch ==
    /\ NoResearch /\ NoRequest /\ NoStream
    /\ d_in \in [topics : [MatchProviders -> TopicLists]]
    /\ d_out = <<>>

\* the call matched = match_topics(provider_topics): the clusters
ApplyMatch ==
    /\ d_out = <<>>
    /\ d_out' = <<match_topics(d_in.topics)>>
    /\ UNCHANGED <<d_in, rVars, hVars, sVars>>

NextMatch == ApplyMatch

SpecMatch == InitMatch /\ [][NextMatch]_vars

-----------------------------------------------------------------------------
(* lib/validate.py: validate_citations as a function of results and depth *)

\* the most citations one result has
MaxCitations == 2

\* the depths the function is called with: none, liveness, relevance,
\* cross-reference, and one that is none of them
Depths == 0 .. 4

\* the numbers of results
ResultCounts == {0, 1, 2}

\* a citation: a dict (url: absent, empty or a URL; net: what the check of
\* the URL finds) or a str; validation: the record attached to it, if any
Citation(kind, url, net) == [kind |-> kind, url |-> url, net |-> net, validation |-> <<>>]

Citations ==
    { Citation("dict", <<"u">>, n) : n \in {"valid", "invalid", "unreachable"} }
    \cup { Citation("dict", <<>>, ""), Citation("dict", <<"">>, ""), Citation("str", <<>>, "") }

CitationLists == UNION { [1 .. k -> Citations] : k \in 0 .. MaxCitations }

\* {"status": ..., "depth": depth, "details": ...}
Validation(status, depth) == [status |-> status, depth |-> depth]

\* _validate_url_liveness, _validate_url_relevance,
\* _validate_url_cross_reference: every exception is caught; the status is
\* valid, invalid or unreachable; a depth above 3 gives "skipped"
ValidateUrl(citation, depth) ==
    IF depth \in {1, 2, 3} THEN citation.net ELSE "skipped"

\* validate_citations: the body of "for citation in citations": the citation
\* after it and the exception raised, if any. citation["validation"] = ...
\* on a str raises TypeError (a str supports no item assignment)
ValidateCitation(citation, depth) ==
    IF citation.kind # "dict"
    THEN [raised |-> "TypeError", citation |-> citation]
    ELSE IF Get(citation.url, "") = ""
    THEN [raised |-> "",
          citation |-> [citation EXCEPT !.validation = <<Validation("skipped", depth)>>]]
    ELSE [raised |-> "",
          citation |-> [citation EXCEPT
                           !.validation = <<Validation(ValidateUrl(citation, depth), depth)>>]]

\* validate_citations: "for citation in citations" from index i on; the
\* citations are modified in place, an exception leaves the loop
RECURSIVE ValidateFrom(_, _, _)
ValidateFrom(citations, i, depth) ==
    IF i > Len(citations) THEN [raised |-> "", citations |-> citations]
    ELSE LET r == ValidateCitation(citations[i], depth) IN
         IF r.raised # "" THEN [raised |-> r.raised, citations |-> citations]
         ELSE ValidateFrom([citations EXCEPT ![i] = r.citation], i + 1, depth)

\* validate_citations: "for result in results" from index i on
RECURSIVE ValidateResultsFrom(_, _, _)
ValidateResultsFrom(results, i, depth) ==
    IF i > Len(results) THEN [raised |-> "", results |-> results]
    ELSE LET r == ValidateFrom(results[i], 1, depth)
             results1 == [results EXCEPT ![i] = r.citations]
         IN  IF r.raised # "" THEN [raised |-> r.raised, results |-> results1]
             ELSE ValidateResultsFrom(results1, i + 1, depth)

\* validate_citations(results, depth): what it raises ("" if it returns) and
\* the results, each result being its list of citations
validate_citations(results, depth) ==
    IF depth = 0 THEN [raised |-> "", results |-> results]
    ELSE ValidateResultsFrom(results, 1, depth)

InitValidate ==
    /\ NoResearch /\ NoRequest /\ NoStream
    /\ d_in \in [depth : Depths,
                 results : UNION { [1 .. k -> CitationLists] : k \in ResultCounts }]
    /\ d_out = <<>>

\* the call validate_citations(results, depth)
ApplyValidate ==
    /\ d_out = <<>>
    /\ d_out' = <<validate_citations(d_in.results, d_in.depth)>>
    /\ UNCHANGED <<d_in, rVars, hVars, sVars>>

NextValidate == ApplyValidate

SpecValidate == InitValidate /\ [][NextValidate]_vars

-----------------------------------------------------------------------------
(* http.request() *)

\* a Retry-After header: absent, the empty string, a text that float()
\* rejects, or a number (seconds)
Header(kind, value) == [kind |-> kind, value |-> value]
RetryAfterHeaders ==
    { Header("absent", 0), Header("empty", 0), Header("text", 0) }
    \cup { Header("number", r) : r \in RetryAfterSeconds }

\* what one urlopen + read + json.loads may do: kind is
\*   "ok"          a response whose body is valid JSON (or empty)
\*   "bad_json"    a response whose body is not JSON (json.JSONDecodeError)
\*   "bad_utf8"    a response whose body is not UTF-8 (UnicodeDecodeError)
\*   "http_error"  urllib.error.HTTPError with code, headers and body
\*                 (body Absent: e.read() failed)
\*   "url_error"   urllib.error.URLError
\*   "os_error"    OSError, TimeoutError, ConnectionResetError
Response(kind, code, retry_after, body) ==
    [kind |-> kind, code |-> code, retry_after |-> retry_after, body |-> body]

Responses ==
    { Response(k, None, Header("absent", 0), Absent) :
        k \in {"ok", "bad_json", "bad_utf8", "url_error", "os_error"} }
    \cup { Response("http_error", 429, h, "slow down") : h \in RetryAfterHeaders }
    \cup { Response("http_error", 500, h, Absent) : h \in {Header("absent", 0), Header("number", 7)} }
    \cup { Response("http_error", c, Header("absent", 0), b) :
             c \in {400, 404}, b \in {"not found", Absent} }
    \cup { Response("http_error", 403, Header("number", 7), "denied") }

\* request: retry_after, from e.headers.get("Retry-After"), in ticks (<<>> is None)
ParseRetryAfter(h) == IF h.kind = "number" THEN <<h.value * Ticks>> ELSE <<>>

\* variants: one that gives up on 429 too, one that gives up on 404 only
NonRetryableStatus_All4xx(code) == 400 <= code /\ code < 500
NonRetryableStatus_Only404(code) == code = 404

\* request: 400 <= e.code < 500 and e.code != 429
NonRetryableStatus(code) == 400 <= code /\ code < 500 /\ code # 429

\* a variant that takes no status for a rate limit
IsRateLimit_Never(code) == FALSE

\* request: is_rate_limit = (e.code == 429)
IsRateLimit(code) == code = 429

\* what request() returns or raises
RequestResult(kind, cls, code, body, retry_after) ==
    [kind |-> kind, cls |-> cls, status_code |-> code, body |-> body,
     retry_after |-> retry_after]
RequestReturned == RequestResult("ok", "", None, Absent, <<>>)
\* HTTPError(message, status_code, body, retry_after)
RequestHTTPError(code, body, retry_after) ==
    RequestResult("error", "HTTPError", code, body, retry_after)
\* an exception that is no HTTPError
RequestOtherError(cls) == RequestResult("error", cls, None, Absent, <<>>)

\* the error an attempt leaves in last_error
ErrorOf(resp) ==
    IF resp.kind = "http_error"
    THEN RequestHTTPError(resp.code, resp.body, ParseRetryAfter(resp.retry_after))
    ELSE RequestHTTPError(None, Absent, <<>>)

InitHttp ==
    /\ NoResearch /\ NoDelayCall /\ NoStream
    /\ h_pc = "loop"
    /\ h_retries \in 0 .. MaxRetriesArg
    /\ h_attempt = 0
    /\ h_last_error = <<>>
    /\ h_log = <<>>
    /\ h_outcome = <<>>

\* request() ends with result r after the attempt logged as entry
HttpEnd(entry, r) ==
    /\ h_pc' = "done"
    /\ h_outcome' = <<r>>
    /\ h_log' = Append(h_log, entry)
    /\ UNCHANGED <<h_retries, h_attempt>>

\* request: "if attempt < retries - 1": the delay, the sleep, the next iteration
HttpRetry(resp, is_rate_limit, retry_after) ==
    /\ h_last_error' = <<ErrorOf(resp)>>
    /\ IF h_attempt < h_retries - 1
       THEN \E rnd \in 0 .. RandomSteps - 1 :
              LET delay == get_retry_delay(h_attempt, is_rate_limit, retry_after, rnd)
                  entry == [resp |-> resp, sleep |-> <<delay>>]
              IN  \* time.sleep raises ValueError for a negative argument
                  IF delay < 0
                  THEN HttpEnd(entry, RequestOtherError("ValueError"))
                  ELSE /\ h_log' = Append(h_log, entry)
                       /\ h_attempt' = h_attempt + 1
                       /\ UNCHANGED <<h_pc, h_retries, h_outcome>>
       ELSE /\ h_log' = Append(h_log, [resp |-> resp, sleep |-> <<>>])
            /\ h_attempt' = h_attempt + 1
            /\ UNCHANGED <<h_pc, h_retries, h_outcome>>

\* request: one iteration of "for attempt in range(retries)"
HttpAttempt ==
    /\ h_pc = "loop" /\ h_attempt < h_retries
    /\ \E resp \in Responses :
         LET nosleep == [resp |-> resp, sleep |-> <<>>] IN
         CASE resp.kind = "ok" ->
                /\ HttpEnd(nosleep, RequestReturned)
                /\ UNCHANGED h_last_error
           [] resp.kind = "bad_json" ->
                /\ HttpEnd(nosleep, RequestHTTPError(None, Absent, <<>>))
                /\ h_last_error' = <<RequestHTTPError(None, Absent, <<>>)>>
           [] resp.kind = "bad_utf8" ->
                /\ HttpEnd(nosleep, RequestOtherError("UnicodeDecodeError"))
                /\ UNCHANGED h_last_error
           [] resp.kind = "http_error" ->
                IF NonRetryableStatus(resp.code)
                THEN /\ HttpEnd(nosleep, ErrorOf(resp))
                     /\ h_last_error' = <<ErrorOf(resp)>>
                ELSE HttpRetry(resp, IsRateLimit(resp.code), ParseRetryAfter(resp.retry_after))
           [] resp.kind \in {"url_error", "os_error"} ->
                HttpRetry(resp, FALSE, <<>>)
    /\ UNCHANGED <<rVars, dVars, sVars>>

\* request: after the loop, "if last_error: raise last_error", else the
\* error without details
HttpExhausted ==
    /\ h_pc = "loop" /\ h_attempt >= h_retries
    /\ h_pc' = "done"
    /\ h_outcome' = <<IF h_last_error # <<>> THEN h_last_error[1]
                      ELSE RequestHTTPError(None, Absent, <<>>)>>
    /\ UNCHANGED <<h_retries, h_attempt, h_last_error, h_log, rVars, dVars, sVars>>

NextHttp ==
    \/ HttpAttempt
    \/ HttpExhausted

SpecHttp == InitHttp /\ [][NextHttp]_vars

-----------------------------------------------------------------------------
(* http._parse_sse_lines *)

\* the most lines one stream delivers
MaxLines == 4

\* a line after line.rstrip('\r\n'): kind is
\*   "blank"    the empty line
\*   "comment"  a line that starts with ':'
\*   "field"    another line with a ':' in it: field, ':', value
\*   "other"    a line without ':'
Line(kind, field, value) == [kind |-> kind, field |-> field, value |-> value]
BlankLine == Line("blank", "", <<>>)
CommentLine == Line("comment", "", <<>>)
OtherLine == Line("other", "", <<>>)
FieldLine(field, value) == Line("field", field, value)

SseLines ==
    { BlankLine, CommentLine, OtherLine,
      FieldLine("event", <<" ", "x">>),
      FieldLine("data", <<" ", "a">>), FieldLine("data", <<"b">>), FieldLine("data", <<>>),
      FieldLine("id", <<" ", "1">>),
      FieldLine("retry", <<" ", "5">>) }

\* an event dict
SseEvent(event, data, id) == [event |-> event, data |-> data, id |-> id]
NoSseEvent == SseEvent(<<>>, <<>>, <<>>)

\* a variant that joins the parts without separator
RECURSIVE JoinNewline_Bare(_)
JoinNewline_Bare(parts) ==
    IF parts = <<>> THEN <<>> ELSE parts[1] \o JoinNewline_Bare(Tail(parts))

\* '\n'.join(data_parts)
RECURSIVE JoinNewline(_)
JoinNewline(parts) ==
    IF parts = <<>> THEN <<>>
    ELSE IF Len(parts) = 1 THEN parts[1]
    ELSE parts[1] \o <<"\n">> \o JoinNewline(Tail(parts))

\* value[1:] if value.startswith(' ')
StripLeadingSpace(value) ==
    IF value # <<>> /\ Head(value) = " " THEN Tail(value) ELSE value

\* a variant that takes every event for one with content
HasContent_Always(ev) == TRUE

\* current_event["event"] or current_event["data"] or current_event["id"]
HasContent(ev) == ev.event # <<>> \/ ev.data # <<>> \/ ev.id # <<>>

\* if data_parts: current_event["data"] = '\n'.join(data_parts)
FlushData(st) ==
    IF st.data_parts # <<>>
    THEN [st EXCEPT !.current_event.data = JoinNewline(st.data_parts), !.data_parts = <<>>]
    ELSE st

\* a variant whose next event inherits the type of the one emitted
EmitEvent_KeepsType(st) ==
    IF HasContent(st.current_event)
    THEN [st EXCEPT !.events = Append(@, st.current_event),
                    !.current_event = SseEvent(st.current_event.event, <<>>, <<>>)]
    ELSE st

\* if the event has content: events.append(current_event) and a new current_event
EmitEvent(st) ==
    IF HasContent(st.current_event)
    THEN [st EXCEPT !.events = Append(@, st.current_event), !.current_event = NoSseEvent]
    ELSE st

\* the body of "for line in lines"
ParseLine(st, line) ==
    CASE line.kind = "comment" -> st
      [] line.kind = "blank" -> EmitEvent(FlushData(st))
      [] line.kind = "field" ->
           LET value == StripLeadingSpace(line.value) IN
           CASE line.field = "event" -> [st EXCEPT !.current_event.event = value]
             [] line.field = "data" -> [st EXCEPT !.data_parts = Append(@, value)]
             [] line.field = "id" -> [st EXCEPT !.current_event.id = value]
             [] OTHER -> st
      [] OTHER -> st

RECURSIVE ParseLines(_, _)
ParseLines(st, lines) ==
    IF lines = <<>> THEN st ELSE ParseLines(ParseLine(st, Head(lines)), Tail(lines))

\* _parse_sse_lines(lines): the loop, then the flush of the final event
parse_sse_lines(lines) ==
    LET st0 == [events |-> <<>>, current_event |-> NoSseEvent, data_parts |-> <<>>]
    IN  EmitEvent(FlushData(ParseLines(st0, lines))).events

\* the argument lists _parse_sse_lines is applied to: every list of at most
\* MaxLines lines
ParseInputs == UNION { [1 .. k -> SseLines] : k \in 0 .. MaxLines }

InitParse ==
    /\ NoResearch /\ NoRequest /\ NoStream
    /\ d_in \in [lines : ParseInputs]
    /\ d_out = <<>>

\* the call events = _parse_sse_lines(lines)
ApplyParse ==
    /\ d_out = <<>>
    /\ d_out' = <<parse_sse_lines(d_in.lines)>>
    /\ UNCHANGED <<d_in, rVars, hVars, sVars>>

NextParse == ApplyParse

SpecParse == InitParse /\ [][NextParse]_vars

-----------------------------------------------------------------------------
(* http.stream_sse(): the generator, driven by its consumer *)

\* what urllib.request.urlopen may do at a connect attempt: return a
\* response ("ok") or raise
ConnectResponses ==
    { r \in Responses : r.kind \in {"ok", "http_error", "url_error", "os_error"} }

\* what readline() or the decoding of its bytes may raise
ReadErrors == {"TimeoutError", "OSError", "UnicodeDecodeError"}

\* how the generator ends: kind is
\*   "exhausted"  the generator returned (StopIteration for the consumer)
\*   "closed"     the consumer left its loop; the generator was closed at its
\*                yield (GeneratorExit), which CPython does as soon as the
\*                loop's reference to the generator is dropped
\*   "error"      the generator raised error
SseResult(kind, error) == [kind |-> kind, error |-> error]
SseExhausted == SseResult("exhausted", RequestReturned)
SseClosed == SseResult("closed", RequestReturned)
SseRaised(error) == SseResult("error", error)

\* a variant that hands the exception of a failed read on as it is
WrapReadError_Bare(e) == RequestOtherError(e)

\* stream_sse: except (TimeoutError, OSError) as e: raise HTTPError(...); a
\* UnicodeDecodeError of line_bytes.decode is not caught
WrapReadError(e) ==
    IF e = "UnicodeDecodeError" THEN RequestOtherError(e)
    ELSE RequestHTTPError(None, Absent, <<>>)

\* a variant that keeps the lines of the events already yielded
BufferAfterDelimiter_Kept(buffer) == buffer

\* stream_sse: buffer = [] once the events of the buffer have been yielded
BufferAfterDelimiter(buffer) == <<>>

InitSse ==
    /\ NoResearch /\ NoRequest /\ NoDelayCall
    /\ s_pc = "connect"
    /\ s_attempt = 0
    /\ s_last_error = <<>>
    /\ s_log = <<>>
    /\ s_opens = 0
    /\ s_conn = "none"
    /\ s_buffer = <<>>
    /\ s_pending = <<>>
    /\ s_wire = [lines |-> <<>>, eof |-> FALSE, failed |-> ""]
    /\ s_yielded = <<>>
    /\ s_outcome = <<>>

\* a variant without the finally clause
SseEnd_NoClose(r) ==
    /\ s_pc' = "done"
    /\ s_outcome' = <<r>>
    /\ s_conn' = s_conn

\* the generator ends with result r; "finally: response.close()" once the
\* stream phase has been entered
SseEnd(r) ==
    /\ s_pc' = "done"
    /\ s_outcome' = <<r>>
    /\ s_conn' = IF s_conn = "open" THEN "closed" ELSE s_conn

\* stream_sse: "if attempt < MAX_RETRIES - 1": the delay, the sleep, the next
\* iteration of the connect loop
SseConnectRetry(resp, is_rate_limit, retry_after) ==
    /\ s_last_error' = <<ErrorOf(resp)>>
    /\ IF s_attempt < MAX_RETRIES - 1
       THEN \E rnd \in 0 .. RandomSteps - 1 :
              LET delay == get_retry_delay(s_attempt, is_rate_limit, retry_after, rnd)
                  entry == [resp |-> resp, sleep |-> <<delay>>]
              IN  /\ s_log' = Append(s_log, entry)
                  /\ IF delay < 0
                     THEN \* time.sleep raises ValueError for a negative argument
                          /\ SseEnd(SseRaised(RequestOtherError("ValueError")))
                          /\ UNCHANGED s_attempt
                     ELSE /\ s_attempt' = s_attempt + 1
                          /\ UNCHANGED <<s_pc, s_outcome, s_conn>>
       ELSE /\ s_log' = Append(s_log, [resp |-> resp, sleep |-> <<>>])
            /\ s_attempt' = s_attempt + 1
            /\ UNCHANGED <<s_pc, s_outcome, s_conn>>

\* stream_sse: one iteration of "for attempt in range(MAX_RETRIES)". Once
\* the connection is established last_error is not read again, and the
\* history of the connect loop is reduced to the number of its attempts.
SseConnect ==
    /\ s_pc = "connect" /\ s_attempt < MAX_RETRIES
    /\ \E resp \in ConnectResponses :
         CASE resp.kind = "ok" ->
                /\ s_pc' = "read"
                /\ s_conn' = "open"
                /\ s_opens' = s_opens + 1
                /\ s_last_error' = <<>>
                /\ s_log' = <<>>
                /\ UNCHANGED <<s_attempt, s_outcome>>
           [] resp.kind = "http_error" ->
                /\ UNCHANGED s_opens
                /\ IF NonRetryableStatus(resp.code)
                   THEN /\ SseEnd(SseRaised(ErrorOf(resp)))
                        /\ s_last_error' = <<ErrorOf(resp)>>
                        /\ s_log' = Append(s_log, [resp |-> resp, sleep |-> <<>>])
                        /\ UNCHANGED s_attempt
                   ELSE SseConnectRetry(resp, resp.code = 429, ParseRetryAfter(resp.retry_after))
           [] resp.kind \in {"url_error", "os_error"} ->
                /\ UNCHANGED s_opens
                /\ SseConnectRetry(resp, FALSE, <<>>)
    /\ UNCHANGED <<s_buffer, s_pending, s_wire, s_yielded, rVars, hVars, dVars>>

\* stream_sse: the else clause of the connect loop
SseConnectExhausted ==
    /\ s_pc = "connect" /\ s_attempt >= MAX_RETRIES
    /\ SseEnd(SseRaised(IF s_last_error # <<>> THEN s_last_error[1]
                        ELSE RequestHTTPError(None, Absent, <<>>)))
    /\ UNCHANGED <<s_attempt, s_last_error, s_log, s_opens, s_buffer, s_pending,
                   s_wire, s_yielded, rVars, hVars, dVars>>

\* stream_sse: readline returns a line
SseReadLine ==
    /\ s_pc = "read" /\ Len(s_wire.lines) < MaxLines
    /\ \E line \in SseLines :
         LET buffer == Append(s_buffer, line)
             events == parse_sse_lines(buffer)
         IN  /\ s_wire' = [s_wire EXCEPT !.lines = Append(@, line)]
             /\ IF line.kind = "blank" /\ events # <<>>
                THEN /\ s_pending' = events
                     /\ s_buffer' = buffer
                     /\ s_pc' = "yield"
                ELSE /\ s_buffer' = IF line.kind = "blank"
                                     THEN BufferAfterDelimiter(buffer) ELSE buffer
                     /\ UNCHANGED <<s_pending, s_pc>>
    /\ UNCHANGED <<s_attempt, s_last_error, s_log, s_opens, s_conn, s_yielded,
                   s_outcome, rVars, hVars, dVars>>

\* a variant that drops the buffered lines at EOF
EofFlush_None(buffer) == <<>>

\* stream_sse at EOF: if buffer: events = _parse_sse_lines(buffer)
EofFlush(buffer) == IF buffer # <<>> THEN parse_sse_lines(buffer) ELSE <<>>

\* stream_sse: readline returns b'' (EOF): the buffer is flushed, then "break"
SseReadEOF ==
    /\ s_pc = "read"
    /\ s_wire' = [s_wire EXCEPT !.eof = TRUE]
    /\ LET events == EofFlush(s_buffer) IN
       IF events # <<>>
       THEN /\ s_pending' = events
            /\ s_pc' = "yield"
            /\ UNCHANGED <<s_conn, s_outcome>>
       ELSE /\ SseEnd(SseExhausted)
            /\ UNCHANGED s_pending
    /\ UNCHANGED <<s_attempt, s_last_error, s_log, s_opens, s_buffer, s_yielded,
                   rVars, hVars, dVars>>

\* stream_sse: readline raises (socket timeout, connection error), wrapped
\* into an HTTPError, or the line is not UTF-8, which is not caught
SseReadError ==
    /\ s_pc = "read"
    /\ \E e \in ReadErrors :
         /\ SseEnd(SseRaised(WrapReadError(e)))
         /\ s_wire' = [s_wire EXCEPT !.failed = e]
    /\ UNCHANGED <<s_attempt, s_last_error, s_log, s_opens, s_buffer, s_pending,
                   s_yielded, rVars, hVars, dVars>>

\* stream_sse: "yield event", and the consumer asks for the next event
SseYield ==
    /\ s_pc = "yield"
    /\ s_yielded' = Append(s_yielded, Head(s_pending))
    /\ s_pending' = Tail(s_pending)
    /\ IF Tail(s_pending) # <<>>
       THEN UNCHANGED <<s_pc, s_buffer, s_conn, s_outcome>>
       ELSE IF s_wire.eof
            THEN SseEnd(SseExhausted) /\ UNCHANGED s_buffer
            ELSE /\ s_buffer' = BufferAfterDelimiter(s_buffer)
                 /\ s_pc' = "read"
                 /\ UNCHANGED <<s_conn, s_outcome>>
    /\ UNCHANGED <<s_attempt, s_last_error, s_log, s_opens, s_wire, rVars, hVars, dVars>>

\* stream_sse: "yield event", and the consumer leaves its loop (return,
\* break or exception): GeneratorExit at the yield, then the finally clause
SseYieldLast ==
    /\ s_pc = "yield"
    /\ s_yielded' = Append(s_yielded, Head(s_pending))
    /\ SseEnd(SseClosed)
    /\ UNCHANGED <<s_attempt, s_last_error, s_log, s_opens, s_buffer, s_pending,
                   s_wire, rVars, hVars, dVars>>

NextSse ==
    \/ SseConnect
    \/ SseConnectExhausted
    \/ SseReadLine
    \/ SseReadEOF
    \/ SseReadError
    \/ SseYield
    \/ SseYieldLast

SpecSse == InitSse /\ [][NextSse]_vars

-----------------------------------------------------------------------------
(* Properties of research() *)

\* research() has returned this report and this model (with some citations)
ReturnsReport(report, mdl) == [outcome EXCEPT !.citations = <<>>] = Returned(report, mdl)

\* the submission response reports completed / carries an identifier
SubmissionCompleted ==
    IF provider = "gemini"
    THEN GeminiStatus(submit_doc) \in {"completed", "COMPLETED"}
    ELSE OpenaiStatus(submit_doc) = "completed"

SubmissionHasId ==
    IF provider = "gemini"
    THEN GeminiInteractionId(submit_doc) # ""
    ELSE OpenaiResponseId(submit_doc) # ""

\* the outcome of research() is the outcome of gemini's polling loop: the
\* report of the completed snapshot, the API error of a failed or cancelled
\* one, the timeout of the loop, or the error of a failed status fetch
OutcomeIsThatOfPolling ==
    \/ /\ GeminiStatus(poll_doc) \in {"completed", "COMPLETED"}
       /\ ReturnsReport(GeminiExtractReport(poll_doc), AGENT)
    \/ /\ GeminiStatus(poll_doc) \in {"failed", "FAILED"}
       /\ outcome.cls = "ProviderAPIError" /\ outcome.msg = PollErrorMessage(poll_doc)
    \/ /\ GeminiStatus(poll_doc) \in {"cancelled", "CANCELLED"}
       /\ outcome.cls = "ProviderAPIError" /\ outcome.msg = "was cancelled"
    \/ /\ poll_doc = NoDoc
       /\ outcome.cls = "ProviderTimeoutError"
       /\ now - poll_start >= MAX_TIMEOUT_SECONDS
    \/ /\ poll_doc = NoDoc
       /\ trace.polls >= 1
       /\ outcome \in NetFailures

\* C1: in gemini research(), once _stream_response has raised an HTTPError
\* without status code or with a status >= 500, the polling loop has been
\* entered and the outcome of the call is the outcome of that loop; once it
\* has raised an HTTPError with a 4xx status, the call has ended with that
\* error and no status poll has been issued.
C1_StreamFallback ==
    (provider = "gemini" /\ stream_end.how = "raised") =>
        /\ (stream_end.status_code = None \/ stream_end.status_code >= 500) =>
              /\ pc \in {"poll", "done"}
              /\ poll_start # None
              /\ pc = "done" => OutcomeIsThatOfPolling
        /\ (stream_end.status_code >= 400 /\ stream_end.status_code < 500) =>
              /\ pc = "done"
              /\ trace.polls = 0
              /\ outcome = HTTPError(stream_end.status_code, "")

\* C1 witness: a stream that failed with a 5xx status, and the call returned
\* the report of the completed poll snapshot
C1_Witness ==
    /\ provider = "gemini" /\ stream_end.how = "raised" /\ stream_end.status_code = 500
    /\ pc = "done" /\ outcome.kind = "ok" /\ outcome.report # <<>>
    /\ trace.polls >= 2

\* C2: whenever a ceiling check (of the stream loop or of a polling loop) has
\* found the elapsed time at or beyond the ceiling, the call ends with a
\* ProviderTimeoutError.
C2_CeilingYieldsTimeout ==
    (trace.ceiling /\ pc = "done") => outcome.cls = "ProviderTimeoutError"

\* C3: in gemini research() no status fetch of the polling loop is issued
\* once the time since the call started (at time 0) has reached the ceiling.
C3_OneBudgetForTheCall ==
    (provider = "gemini" /\ trace.last_poll_at # None) =>
        trace.last_poll_at < MAX_TIMEOUT_SECONDS

\* the most status fetches a polling loop issues: one per interval of the
\* schedule 5 s to 120 s, 15 s to 600 s, 30 s to the ceiling
PollFetchBound ==
    (120 \div 5) + ((600 - 120) \div 15) + ((MAX_TIMEOUT_SECONDS - 600) \div 30)

\* C4: every research call reaches a terminal outcome, and no call issues
\* more than PollFetchBound status fetches, whatever statuses and events the
\* provider delivers.
C4_Terminates ==
    /\ [](trace.polls <= PollFetchBound)
    /\ <>(pc = "done")

\* C4 witness: a provider that never reported a terminal status: the call
\* ended with the timeout after the most status fetches
C4_Witness ==
    /\ pc = "done" /\ outcome.cls = "ProviderTimeoutError"
    /\ trace.polls = PollFetchBound

C16_ReadTimeoutBelowCeiling ==
    trace.stalled # None => trace.stalled < MAX_TIMEOUT_SECONDS

\* the text the events of a stream carry: that of the content.delta events
\* of type text, in the order of the events
RECURSIVE TextOf(_)
TextOf(events) ==
    IF events = <<>> THEN <<>>
    ELSE LET ev == Head(events) IN
         (IF ev.event = "content.delta" /\ ev.payload = "dict" /\ ev.dtype = "text"
          THEN ev.dtext ELSE <<>>) \o TextOf(Tail(events))

\* C17: while the stream is read the accumulated parts are, in order, the
\* texts of the content.delta events of type text received so far; the
\* report _stream_response returns at the complete event is their
\* concatenation, and so is the report of the call that returns it.
C17_ReportIsConcatenation ==
    provider = "gemini" =>
        /\ pc = "stream" => Join(report_parts) = TextOf(trace.arrived)
        /\ pc = "citations" =>
              /\ stream_end.how = "returned"
              /\ Join(report_parts) = TextOf(SubSeq(trace.arrived, 1, Len(trace.arrived) - 1))
        /\ (pc = "done" /\ trace.cites = 1) =>
              outcome.report = TextOf(SubSeq(trace.arrived, 1, Len(trace.arrived) - 1))

\* C17 witness: start, text a, thinking, text http://u3, complete: the
\* report is a http://u3
C17_Witness ==
    /\ pc = "done" /\ trace.cites = 1 /\ outcome.report = <<"a", "http://u3">>
    /\ Len(trace.arrived) = 3
    /\ trace.arrived[3].event = "interaction.complete"

\* C18: once _stream_response has ended on an error event (the only place
\* where it raises a ProviderAPIError), the call has ended with an API error
\* that carries the message of the event, and no status poll has been issued:
\* the polling loop is not entered.
C18_ErrorEventEndsCall ==
    (provider = "gemini" /\ stream_end.wrapped = "ProviderAPIError") =>
        /\ pc = "done"
        /\ outcome.cls = "ProviderAPIError" /\ outcome.msg = stream_end.msg
        /\ poll_start = None /\ trace.polls = 0

\* C19: once _stream_response has returned (which it does at a complete
\* event only), the polling loop is not entered and no status poll is issued,
\* whether the accumulated report is empty or not, and the call ends
\* successfully with the accumulated report.
C19_CompleteEndsCall ==
    (provider = "gemini" /\ stream_end.how = "returned") =>
        /\ pc \in {"citations", "done"}
        /\ poll_start = None /\ trace.polls = 0
        /\ pc = "done" =>
              /\ outcome.kind = "ok"
              /\ outcome.report = TextOf(SubSeq(trace.arrived, 1, Len(trace.arrived) - 1))

\* C20: a call whose stream returned has, when it ends, issued exactly one
\* status fetch (the one for the citations) and succeeded with the streamed
\* report; when that fetch failed, the citation list is empty.
C20_CitationsBestEffort ==
    (provider = "gemini" /\ stream_end.how = "returned" /\ pc = "done") =>
        /\ trace.cites = 1 /\ trace.polls = 0
        /\ outcome.kind = "ok" /\ outcome.model = AGENT
        /\ outcome.report = TextOf(SubSeq(trace.arrived, 1, Len(trace.arrived) - 1))
        /\ trace.cites_failed => outcome.citations = <<>>

\* C31: a gemini call that succeeded with a non-empty report, the provider
\* having supplied no structured citation data, returns as citations the
\* bare URLs of that report, each once, in the order of their first
\* occurrence: on the submit-completed path, the polling path and the
\* streaming path.
C31_InlineCitations ==
    (provider = "gemini" /\ pc = "done" /\ outcome.kind = "ok"
        /\ outcome.report # <<>> /\ ~trace.structured) =>
        outcome.citations = InlineUrls(outcome.report, {})

\* the status of the latest status document of the polling loop, in lower
\* case (gemini accepts its terminal statuses in both spellings)
LatestPollStatus ==
    LET st == IF provider = "gemini" THEN GeminiStatus(poll_doc) ELSE OpenaiStatus(poll_doc)
    IN  CASE st = "COMPLETED" -> "completed"
          [] st = "FAILED" -> "failed"
          [] st = "CANCELLED" -> "cancelled"
          [] OTHER -> st

\* the report research() extracts from the latest status document
LatestPollReport ==
    IF provider = "gemini" THEN GeminiExtractReport(poll_doc) ELSE OpenaiExtractReport(poll_doc)

\* C21: in the polling loop of each provider, once a status document has
\* been fetched: completed has ended the call with the report of that
\* snapshot, failed and incomplete have ended it with an API error (for
\* failed: carrying the provider's message), cancelled has ended it with the
\* API error "was cancelled", and with every other status the loop goes on;
\* a call that has ended issues no further poll.
C21_TerminalStatuses ==
    (pc \in {"poll", "done"} /\ poll_doc # NoDoc) =>
        CASE LatestPollStatus = "completed" ->
                 pc = "done" /\ ReturnsReport(LatestPollReport, model)
          [] LatestPollStatus = "failed" ->
                 /\ pc = "done" /\ outcome.cls = "ProviderAPIError"
                 /\ outcome.msg = PollErrorMessage(poll_doc)
          [] LatestPollStatus = "incomplete" ->
                 pc = "done" /\ outcome.cls = "ProviderAPIError"
          [] LatestPollStatus = "cancelled" ->
                 /\ pc = "done" /\ outcome.cls = "ProviderAPIError"
                 /\ outcome.msg = "was cancelled"
          [] OTHER -> pc = "poll" /\ outcome = NoOutcome

\* research() issues no request twice, but for the step from the stream to
\* the polling loop: one stream at most, one citations fetch at most, polling
\* in gemini only after the stream, and a failed status fetch has ended the
\* call with its error
NoPhaseRetried ==
    /\ trace.streams <= 1 /\ trace.cites <= 1
    /\ (provider = "gemini" /\ trace.polls > 0) => trace.streams = 1
    /\ trace.poll_failed =>
          pc = "done" /\ outcome \in PollFailures /\ poll_doc = NoDoc

C24_FailureCarriesElapsed ==
    (pc = "done" /\ outcome.kind = "error") =>
        /\ outcome.elapsed # None
        /\ outcome.elapsed = now

\* the outcome is a successful result (report, citations, model) and no
\* error, or an error and no result
OneKindOfOutcome ==
    \/ /\ outcome.kind = "ok"
       /\ outcome.cls = "" /\ outcome.model \in {AGENT, PRIMARY_MODEL, FALLBACK_MODEL}
    \/ /\ outcome.kind = "error"
       /\ outcome.cls # "" /\ outcome.report = <<>> /\ outcome.citations = <<>>
       /\ outcome.model = ""

\* C25: every research call produces exactly one outcome: it has none while
\* it runs, it ends (never neither), the outcome it ends with is a result or
\* an error (never both), and once produced the outcome does not change and
\* nothing more happens.
C25_ExactlyOneOutcome ==
    /\ [](pc # "done" <=> outcome = NoOutcome)
    /\ [](pc = "done" => OneKindOfOutcome)
    /\ [][outcome # NoOutcome => outcome' = outcome /\ trace' = trace]_vars
    /\ <>(outcome # NoOutcome)

\* C25 witness: an openai call that ended with the error of a cancelled job
\* after the second submission
C25_Witness ==
    /\ provider = "openai" /\ pc = "done" /\ trace.submits = 2
    /\ outcome.kind = "error" /\ outcome.msg = "was cancelled"
    /\ OneKindOfOutcome

\* the submission response carries a non-empty identifier under one of the
\* names name, id, interactionId
CarriesIdentifier(resp) ==
    \E v \in {resp.name, resp.id, resp.interactionId} : v # Absent /\ v # ""

\* C26: right after gemini's submission response has been read: when it
\* carries a non-empty identifier under one of the accepted names, the call
\* has obtained it and proceeds (to the stream, or to its result when the
\* response is completed); when it carries none, the call has failed with
\* the API error "No interaction ID returned" and has issued no stream and no
\* poll request.
C26_IdentifierExtraction ==
    (provider = "gemini" /\ submit_doc # NoDoc) =>
        IF CarriesIdentifier(submit_doc)
        THEN \/ /\ pc = "stream_open" /\ interaction_id # ""
                /\ interaction_id \in {submit_doc.name, submit_doc.id, submit_doc.interactionId}
             \/ pc = "done" /\ outcome.kind = "ok"
        ELSE /\ pc = "done"
             /\ outcome.cls = "ProviderAPIError"
             /\ outcome.msg = "No interaction ID returned"
             /\ trace.streams = 0 /\ trace.polls = 0

C37_OneReportSource ==
    provider = "gemini" =>
        /\ (pc = "done" /\ outcome.kind = "ok") =>
              \/ /\ trace.streams = 0 /\ trace.polls = 0 /\ trace.cites = 0
                 /\ outcome.report = GeminiExtractReport(submit_doc)
              \/ /\ trace.streams = 1 /\ trace.polls = 0 /\ trace.cites = 1
                 /\ stream_end.how = "returned"
                 /\ trace.arrived[Len(trace.arrived)].event
                        \in {"interaction.complete", "interaction.completed"}
                 /\ outcome.report
                        = TextOf(SubSeq(trace.arrived, 1, Len(trace.arrived) - 1))
              \/ /\ trace.polls > 0 /\ trace.cites = 0
                 /\ GeminiIsCompleted(GeminiStatus(poll_doc))
                 /\ outcome.report = GeminiExtractReport(poll_doc)
        /\ stream_end.how = "raised" => report_parts = <<>> /\ trace.cites = 0
        /\ pc = "poll" => report_parts = <<>>

\* C37 witness: the stream failed after text had been accumulated; the call
\* is about to poll and holds none of that text
C37_Witness ==
    /\ provider = "gemini" /\ pc = "poll" /\ trace.polls = 0
    /\ stream_end.how = "raised" /\ trace.dropped /\ report_parts = <<>>

\* the events whose data is not valid JSON
UndecodableEvents == { ev \in StreamEvents : ev.payload = "invalid" }

\* the state of the call when the event ev arrives after gap seconds
Arrival(gap, ev) == [S EXCEPT !.now = now + gap, !.trace.arrived = Append(@, ev)]

\* C38 as stated: in every state of the stream, an event with an
\* undecodable payload, of whatever type, is skipped: handling it changes
\* nothing (no text is added, the stream neither returns nor raises).
C38_UndecodableSkipped_Original ==
    (provider = "gemini" /\ pc = "stream") =>
        \A gap \in StreamGaps, ev \in UndecodableEvents :
            StreamHandle(Arrival(gap, ev), ev) = Arrival(gap, ev)

\* C38 amended: the same for an event that arrives before the overall
\* ceiling (MAX_TIMEOUT_SECONDS since the start of the stream) is reached.
C38_UndecodableSkipped ==
    (provider = "gemini" /\ pc = "stream") =>
        \A gap \in StreamGaps, ev \in UndecodableEvents :
            ~GeminiCeilingReached((now + gap) - stream_start) =>
                StreamHandle(Arrival(gap, ev), ev) = Arrival(gap, ev)

\* C38 witness: after a text, a complete event and an error event with
\* undecodable payloads have arrived; the stream goes on with that text
C38_Witness ==
    /\ provider = "gemini" /\ pc = "stream" /\ stream_end = StreamRunning
    /\ Len(trace.arrived) = 3
    /\ trace.arrived[1] = Event("content.delta", "dict", "text", <<"a">>, Absent)
    /\ trace.arrived[2] = Event("interaction.complete", "invalid", "", <<>>, Absent)
    /\ trace.arrived[3] = Event("error", "invalid", "", <<>>, Absent)
    /\ report_parts = << <<"a">> >>

\* the phase of the call: the submission (openai: both submissions), the
\* stream with the citations fetch that follows its return, the polling
\* loop, the end
Phase ==
    CASE pc \in {"submit", "submit_fallback"} -> "Submitted"
      [] pc \in {"stream_open", "stream", "citations"} -> "Streaming"
      [] pc = "poll" -> "Polling"
      [] pc = "done" -> "Terminal"

\* the phases that may follow a phase in one step
LaterPhases(phase) ==
    CASE phase = "Submitted" -> {"Submitted", "Streaming", "Polling", "Terminal"}
      [] phase = "Streaming" -> {"Streaming", "Polling", "Terminal"}
      [] phase = "Polling" -> {"Polling", "Terminal"}
      [] phase = "Terminal" -> {}

\* the network requests issued so far
RequestsIssued(t) == t.submits + t.streams + t.polls + t.cites

\* C32: the phases of a research call follow Submitted -> {Streaming |
\* Polling} -> Terminal: a stream or poll request has been issued only after
\* a submission that returned an identifier, requests of a phase are issued
\* in that phase only, no step leads back to an earlier phase, the stream is
\* not requested once polling has begun, and nothing is requested once the
\* call has ended.
C32_PhaseOrder ==
    /\ [](trace.streams + trace.polls + trace.cites > 0 =>
              trace.submits >= 1 /\ interaction_id # "")
    /\ [](Phase = "Submitted" => trace.streams + trace.polls + trace.cites = 0)
    /\ [][Phase' \in LaterPhases(Phase)]_vars
    /\ [][trace'.submits > trace.submits => Phase = "Submitted"]_vars
    /\ [][trace'.streams > trace.streams => Phase = "Streaming" /\ trace.polls = 0]_vars
    /\ [][trace'.polls > trace.polls => Phase = "Polling"]_vars
    /\ [][trace.polls > 0 => trace'.streams = trace.streams /\ trace'.cites = trace.cites]_vars
    /\ [][Phase = "Terminal" => RequestsIssued(trace') = RequestsIssued(trace)]_vars

\* C32 witness: a gemini call that went through all phases: submitted,
\* streamed, polled after the stream failed, ended
C32_Witness ==
    /\ provider = "gemini" /\ Phase = "Terminal"
    /\ trace.submits = 1 /\ trace.streams = 1 /\ trace.polls >= 2
    /\ stream_end.how = "raised" /\ outcome.kind = "ok"

-----------------------------------------------------------------------------
(* Properties of _get_poll_interval *)

\* C22: the interval is 5 for an elapsed time in [0, 120), 15 in [120, 600)
\* and 30 from 600 on, and both implementations return the same interval.
C22_PollInterval ==
    d_out # <<>> =>
        LET e == d_in.elapsed
            expected == CASE e < 120 -> 5
                          [] e >= 120 /\ e < 600 -> 15
                          [] e >= 600 -> 30
        IN  /\ d_out[1].gemini = expected
            /\ d_out[1].openai = expected
            /\ e \in {0, 60, 119} => d_out[1].gemini = 5
            /\ e \in {120, 300, 599} => d_out[1].gemini = 15
            /\ e \in {600, 900, 1800} => d_out[1].gemini = 30

\* C22 witness: at the end of the first window both return 15
C22_Witness ==
    /\ d_out # <<>> /\ d_in.elapsed = 120
    /\ d_out[1].gemini = 15 /\ d_out[1].openai = 15

-----------------------------------------------------------------------------
(* Properties of gemini_dr._extract_report *)

\* the values a dict carries under "text" and "content", in that order
\* (none for a value that is no dict)
TextThenContent(item) ==
    IF item.kind = "dict" THEN item.text \o item.content ELSE <<>>

\* the candidate report locations of a document that carry a value, in the
\* priority order: the last element of outputs (text then content, or the
\* element itself when it is a string), then result (text then content)
Candidates(response) ==
    LET outputs == response.outputs
        last_output == outputs[Len(outputs)]
    IN  (IF outputs = <<>> THEN <<>>
         ELSE IF last_output.kind = "str" THEN last_output.text
         ELSE TextThenContent(last_output))
        \o TextThenContent(response.result)

\* the first non-empty value of a list of values, the empty text if none
RECURSIVE FirstNonEmpty(_)
FirstNonEmpty(values) ==
    IF values = <<>> THEN <<>>
    ELSE IF Head(values) # <<>> THEN Head(values)
    ELSE FirstNonEmpty(Tail(values))

\* C30: the report _extract_report returns is the first non-empty value
\* among the candidate locations taken in the priority order (last element
\* of outputs: text then content, or the element itself when a string; then
\* result: text then content), and is empty only when every candidate is
\* absent or empty.
C30_FirstNonEmptyCandidate ==
    d_out # <<>> =>
        /\ d_out[1] = FirstNonEmpty(Candidates(d_in.response))
        /\ d_out[1] = <<>> =>
              \A i \in DOMAIN Candidates(d_in.response) :
                  Candidates(d_in.response)[i] = <<>>

-----------------------------------------------------------------------------
(* Properties of matrix.match_topics *)

\* the indices at which a heading occurs in a topic list
Occurrences(heading, list) == { i \in DOMAIN list : list[i] = heading }

\* C39: whenever two different providers each have a topic with the same
\* normalized heading (once in each list), match_topics puts the two topics
\* into the same cluster, whatever the order of providers and topics and
\* whatever topics are fuzzy-similar to them.
C39_ExactBeforeFuzzy ==
    d_out # <<>> =>
        \A p \in MatchProviders, q \in MatchProviders :
            \A i \in DOMAIN d_in.topics[p], j \in DOMAIN d_in.topics[q] :
                (/\ p # q
                 /\ d_in.topics[p][i] = d_in.topics[q][j]
                 /\ Occurrences(d_in.topics[p][i], d_in.topics[p]) = {i}
                 /\ Occurrences(d_in.topics[q][j], d_in.topics[q]) = {j}) =>
                    \E c \in DOMAIN d_out[1] : d_out[1][c][p] = i /\ d_out[1][c][q] = j

-----------------------------------------------------------------------------
(* Properties of validate.validate_citations *)

\* C40: for every depth >= 1 validate_citations returns without raising,
\* and every citation of every result carries a validation record with the
\* requested depth and a status among valid, invalid, unreachable, skipped;
\* a citation that is no dict or has no URL is marked skipped; for depth 0
\* the results are returned with no citation modified.
C40_EveryCitationValidated ==
    d_out # <<>> =>
        /\ d_out[1].raised = ""
        /\ d_in.depth = 0 => d_out[1].results = d_in.results
        /\ d_in.depth >= 1 =>
              \A i \in DOMAIN d_in.results : \A j \in DOMAIN d_in.results[i] :
                  LET before == d_in.results[i][j]
                      after == d_out[1].results[i][j]
                  IN  /\ after.validation # <<>>
                      /\ after.validation[1].depth = d_in.depth
                      /\ after.validation[1].status
                            \in {"valid", "invalid", "unreachable", "skipped"}
                      /\ (before.kind # "dict" \/ Get(before.url, "") = "") =>
                            after.validation[1].status = "skipped"

-----------------------------------------------------------------------------
(* Properties of http.request() and http._get_retry_delay *)

\* the i-th attempt of the call was answered with status 429
Answered429(i) ==
    h_log[i].resp.kind = "http_error" /\ h_log[i].resp.code = 429

\* the rate-limit base delay of attempt index k, in ticks
RateLimitBase(k) == RETRY_429_BASE_DELAY * Ticks * Pow2(k)

\* the i-th attempt was answered with a 429 whose Retry-After is absent,
\* empty, not a number, or a number at least the base delay of the attempt
Answered429NoShortHint(i) ==
    /\ Answered429(i)
    /\ h_log[i].resp.retry_after.kind = "number" =>
           h_log[i].resp.retry_after.value * Ticks >= RateLimitBase(i - 1)

\* what C6 promises of a call whose first attempts, up to two, satisfy P:
\* each was followed by a sleep of at least the base delay of its index and
\* the call went on; a third attempt answered 200 ends the call with success
\* and without a third sleep
SucceedsOnThirdAttempt(P(_)) ==
    LET n == Min(Len(h_log), 2) IN
    (h_retries >= 3 /\ n >= 1 /\ \A i \in 1 .. n : P(i)) =>
        /\ \A i \in 1 .. n :
              /\ h_log[i].sleep # <<>>
              /\ h_log[i].sleep[1] >= RateLimitBase(i - 1)
        /\ Len(h_log) <= 2 => h_pc = "loop"
        /\ (Len(h_log) = 3 /\ h_log[3].resp.kind = "ok") =>
              /\ h_pc = "done" /\ h_outcome = <<RequestReturned>>
              /\ h_log[3].sleep = <<>>

\* C6 as stated: for the responses 429, 429, 200 request() succeeds on the
\* third attempt and sleeps exactly twice, each sleep at least rate-limit
\* base x 2^attempt, whatever Retry-After the 429 responses carry.
C6_RateLimitedTwice_Original == SucceedsOnThirdAttempt(Answered429)

\* C6 amended: for the responses 429, 429, 200, where each 429 carries no
\* Retry-After, one that is not a number, or a number at least rate-limit
\* base x 2^attempt, request() succeeds on the third attempt and sleeps
\* exactly twice, each sleep at least rate-limit base x 2^attempt.
C6_RateLimitedTwice == SucceedsOnThirdAttempt(Answered429NoShortHint)

\* C6 witness: 429 without Retry-After, 429 with Retry-After 61, then 200
C6_Witness ==
    /\ h_retries = 3 /\ Len(h_log) = 3 /\ h_outcome = <<RequestReturned>>
    /\ Answered429(1) /\ h_log[1].resp.retry_after.kind = "absent"
    /\ Answered429(2) /\ h_log[2].resp.retry_after = Header("number", 61)
    /\ h_log[3].resp.kind = "ok"
    /\ h_log[1].sleep # <<>> /\ h_log[2].sleep # <<>> /\ h_log[3].sleep = <<>>

\* C7: an attempt answered with a 4xx status other than 429 is the last
\* attempt of the call, whatever its index: the call has ended with an
\* HTTPError carrying that status code and the response body, and no sleep
\* followed the attempt.
C7_ClientErrorFailsAtOnce ==
    \A i \in 1 .. Len(h_log) :
        LET resp == h_log[i].resp IN
        (resp.kind = "http_error" /\ 400 <= resp.code /\ resp.code < 500 /\ resp.code # 429) =>
            /\ i = Len(h_log)
            /\ h_attempt = i - 1
            /\ h_log[i].sleep = <<>>
            /\ h_pc = "done"
            /\ h_outcome # <<>>
            /\ h_outcome[1].cls = "HTTPError"
            /\ h_outcome[1].status_code = resp.code
            /\ h_outcome[1].body = resp.body

\* C7 witness: a 404 on the third attempt, after two retried failures
C7_Witness ==
    /\ Len(h_log) = 3 /\ h_log[3].resp.kind = "http_error" /\ h_log[3].resp.code = 404
    /\ h_log[3].resp.body = "not found"
    /\ h_pc = "done" /\ h_outcome = <<RequestHTTPError(404, "not found", <<>>)>>

\* the attempt failed with an error request() retries
FailedRetryably(i) ==
    LET resp == h_log[i].resp IN
    \/ resp.kind \in {"url_error", "os_error"}
    \/ /\ resp.kind = "http_error"
       /\ ~(400 <= resp.code /\ resp.code < 500 /\ resp.code # 429)

\* C8: request() makes at most retries attempts; a sleep follows an attempt
\* only when another attempt is left, and then that attempt is made; a call
\* that has ended after attempts that all failed retryably has raised the
\* error of the last attempt.
C8_BoundedByRetryCap ==
    /\ Len(h_log) <= h_retries
    /\ \A i \in 1 .. Len(h_log) :
          h_log[i].sleep # <<>> => (i < h_retries /\ (h_pc = "done" => i < Len(h_log)))
    /\ (h_pc = "done" /\ Len(h_log) >= 1 /\ \A i \in 1 .. Len(h_log) : FailedRetryably(i)) =>
          h_outcome = <<ErrorOf(h_log[Len(h_log)].resp)>>

\* C9: without Retry-After the delay of attempt index k is base x 2^k plus
\* at most 25% jitter, and it is never more than RETRY_MAX_DELAY.
C9_ExponentialDelay ==
    (d_out # <<>> /\ d_in.retry_after = <<>>) =>
        LET base == IF d_in.is_rate_limit THEN RETRY_429_BASE_DELAY ELSE RETRY_BASE_DELAY
            raw == base * Ticks * Pow2(d_in.attempt)
        IN  /\ d_out[1] >= Min(raw, RETRY_MAX_DELAY * Ticks)
            /\ d_out[1] <= raw + (raw \div 4)
            /\ d_out[1] <= RETRY_MAX_DELAY * Ticks

\* C10: after a retryable HTTP error response with a numeric Retry-After r,
\* when another attempt is left, request() sleeps min(r, 60) seconds, without
\* jitter, and makes the next attempt; after one with a Retry-After that is
\* not a number it sleeps a delay of the exponential formula.
C10_RetryAfterHonoured ==
    \A i \in 1 .. Len(h_log) :
        LET resp == h_log[i].resp
            base == IF resp.code = 429 THEN RETRY_429_BASE_DELAY ELSE RETRY_BASE_DELAY
            raw == Min(base * Ticks * Pow2(i - 1), RETRY_MAX_DELAY * Ticks)
        IN  (resp.kind = "http_error" /\ FailedRetryably(i) /\ i < h_retries) =>
              IF resp.retry_after.kind = "number"
              THEN /\ h_log[i].sleep =
                          <<Min(resp.retry_after.value * Ticks, RETRY_MAX_DELAY * Ticks)>>
                   /\ ~(h_pc = "done" /\ i = Len(h_log))
              ELSE /\ h_log[i].sleep # <<>>
                   /\ h_log[i].sleep[1] >= raw
                   /\ h_log[i].sleep[1] <= raw + (raw \div 4)

\* C11: an attempt whose response body cannot be decoded (invalid JSON, or
\* bytes that are not UTF-8) is the last attempt of the call: the call has
\* ended with an HTTPError, and no sleep followed the attempt.
C11_DecodeFailureNotRetried ==
    \A i \in 1 .. Len(h_log) :
        h_log[i].resp.kind \in {"bad_json", "bad_utf8"} =>
            /\ i = Len(h_log)
            /\ h_attempt = i - 1
            /\ h_log[i].sleep = <<>>
            /\ h_pc = "done"
            /\ h_outcome # <<>>
            /\ h_outcome[1].cls = "HTTPError"

\* a network-level failure: URLError, OSError, TimeoutError,
\* ConnectionResetError
NetworkFailure(resp) == resp.kind \in {"url_error", "os_error"}

\* a response with a 5xx status
ServerError(resp) == resp.kind = "http_error" /\ resp.code >= 500

\* the delays of the exponential formula: delay plus up to 25% of jitter,
\* in ticks
WithJitter(delay) ==
    { delay + (delay * rnd) \div (4 * RandomSteps) : rnd \in 0 .. RandomSteps - 1 }

\* the i-th attempt failed with a retryable error that satisfies P and was
\* not the last one the retry cap allows: it was followed by a sleep of
\* base(i - 1) with its jitter, and the call went on
RetriedWith(i, base(_)) ==
    /\ h_log[i].sleep # <<>>
    /\ h_log[i].sleep[1] \in WithJitter(base(i - 1))
    /\ i = Len(h_log) => h_pc = "loop" /\ h_attempt = i

\* the call made all the attempts the cap allows, and the last one failed
\* with a retryable error
CapExhausted ==
    /\ h_pc = "done" /\ h_retries >= 1 /\ Len(h_log) = h_retries
    /\ h_log[h_retries].sleep = <<>>
    /\ LET resp == h_log[h_retries].resp IN
       NetworkFailure(resp) \/ ServerError(resp) \/ IsRateLimit(resp.code)

\* what the call raises when the cap is exhausted: after a 5xx response an
\* error with that status code, after a network failure one without
RaisedAtExhaustion ==
    CapExhausted =>
        LET resp == h_log[h_retries].resp IN
        /\ h_outcome # <<>> /\ h_outcome[1].cls = "HTTPError"
        /\ ServerError(resp) => h_outcome[1].status_code = resp.code
        /\ NetworkFailure(resp) => h_outcome[1].status_code = None

GenericBase(k) == RETRY_BASE_DELAY * Ticks * Pow2(k)
GenericBaseCapped(k) == Min(GenericBase(k), RETRY_MAX_DELAY * Ticks)
RateLimitBaseCapped(k) == Min(RateLimitBase(k), RETRY_MAX_DELAY * Ticks)

\* C34 as stated: a network-level failure or a 5xx response that is not the
\* last attempt is retried after 2 s x 2^attempt plus jitter, a 429 after
\* 5 s x 2^attempt plus jitter; at exhaustion the error raised carries the
\* 5xx status code, or none after a network failure.
C34_RetryBases_Original ==
    /\ \A i \in 1 .. Len(h_log) :
          LET resp == h_log[i].resp IN
          /\ ((NetworkFailure(resp) \/ ServerError(resp)) /\ i < h_retries) =>
                RetriedWith(i, GenericBase)
          /\ (Answered429(i) /\ i < h_retries) => RetriedWith(i, RateLimitBase)
    /\ RaisedAtExhaustion

\* C34 amended: the same for the failures that carry no numeric Retry-After
\* value, the delay before jitter being capped at RETRY_MAX_DELAY.
C34_RetryBases ==
    /\ \A i \in 1 .. Len(h_log) :
          LET resp == h_log[i].resp
              nohint == ParseRetryAfter(resp.retry_after) = <<>>
          IN
          /\ ((NetworkFailure(resp) \/ ServerError(resp)) /\ nohint /\ i < h_retries) =>
                RetriedWith(i, GenericBaseCapped)
          /\ (Answered429(i) /\ nohint /\ i < h_retries) =>
                RetriedWith(i, RateLimitBaseCapped)
    /\ RaisedAtExhaustion

\* C34 witness: a network failure, a 429 and a 500, none with Retry-After:
\* two sleeps, of the generic and of the rate-limit base, and the 500 raised
C34_Witness ==
    /\ CapExhausted /\ h_retries = 3
    /\ h_log[1].resp.kind = "os_error" /\ h_log[1].sleep = <<GenericBase(0)>>
    /\ Answered429(2) /\ h_log[2].resp.retry_after.kind = "absent"
    /\ h_log[2].sleep[1] \in WithJitter(RateLimitBase(1)) \ {RateLimitBase(1)}
    /\ ServerError(h_log[3].resp) /\ h_outcome[1].status_code = 500

\* the delays a call has passed to time.sleep, by its log
SleepsOf(log) == { log[i].sleep[1] : i \in { j \in 1 .. Len(log) : log[j].sleep # <<>> } }

\* C35: every delay that request() or stream_sse() passes to time.sleep is
\* at least 0, for every attempt index and every numeric Retry-After value,
\* zero and negative ones included.
C35_SleepNonNegative ==
    \A delay \in SleepsOf(h_log) \cup SleepsOf(s_log) : delay >= 0

-----------------------------------------------------------------------------
(* Properties of http._parse_sse_lines() *)

\* the groups of lines that the blank lines of an input delimit, the lines
\* after the last blank line being the last group (cur: the group under way)
RECURSIVE GroupsFrom(_, _)
GroupsFrom(lines, cur) ==
    IF lines = <<>> THEN <<cur>>
    ELSE IF Head(lines).kind = "blank"
    THEN <<cur>> \o GroupsFrom(Tail(lines), <<>>)
    ELSE GroupsFrom(Tail(lines), Append(cur, Head(lines)))

Groups(lines) == GroupsFrom(lines, <<>>)

\* the values of the lines of a group that carry the field, each without its
\* one leading space, in the order of the lines
FieldValues(group, field) ==
    LET sel == SelectSeq(group, LAMBDA l : l.kind = "field" /\ l.field = field)
    IN  [i \in 1 .. Len(sel) |-> StripLeadingSpace(sel[i].value)]

\* the last element of a sequence of texts, the empty text if there is none
LastOrEmpty(texts) == IF texts = <<>> THEN <<>> ELSE texts[Len(texts)]

\* the data of a group: the values of its data lines, one per line
RECURSIVE LinesOfText(_)
LinesOfText(values) ==
    IF values = <<>> THEN <<>>
    ELSE IF Len(values) = 1 THEN values[1]
    ELSE values[1] \o <<"\n">> \o LinesOfText(Tail(values))

\* the event a group stands for
GroupEvent(group) ==
    SseEvent(LastOrEmpty(FieldValues(group, "event")),
             LinesOfText(FieldValues(group, "data")),
             LastOrEmpty(FieldValues(group, "id")))

\* the group carries a line of one of the fields event, data, id
CarriesField(group) ==
    \E i \in 1 .. Len(group) :
        group[i].kind = "field" /\ group[i].field \in {"event", "data", "id"}

\* the events of the groups whose event, data or id is not empty, in order
RECURSIVE EventsOfGroups(_)
EventsOfGroups(groups) ==
    IF groups = <<>> THEN <<>>
    ELSE LET ev == GroupEvent(Head(groups)) IN
         (IF ev.event # <<>> \/ ev.data # <<>> \/ ev.id # <<>> THEN <<ev>> ELSE <<>>)
            \o EventsOfGroups(Tail(groups))

\* the number of groups that carry a field
RECURSIVE FieldGroupCount(_)
FieldGroupCount(groups) ==
    IF groups = <<>> THEN 0
    ELSE (IF CarriesField(Head(groups)) THEN 1 ELSE 0) + FieldGroupCount(Tail(groups))

\* the input of the claim: event: x, data: a, data: b, blank
MultilineInput ==
    << FieldLine("event", <<" ", "x">>), FieldLine("data", <<" ", "a">>),
       FieldLine("data", <<"b">>), BlankLine >>

\* C27: the events _parse_sse_lines returns are, in order, the events of the
\* groups of lines its input consists of, the data of each being the values
\* of the data lines of its group joined with newlines in their order; for
\* the input event: x, data: a, data: b, blank it returns the one event with
\* event x and data a, newline, b.
C27_MultilineData ==
    d_out # <<>> =>
        /\ d_out[1] = EventsOfGroups(Groups(d_in.lines))
        /\ d_in.lines = MultilineInput =>
              d_out[1] = << SseEvent(<<"x">>, <<"a", "\n", "b">>, <<>>) >>

\* C27 witness: the input of the claim has been parsed into one event
C27_Witness ==
    /\ d_in.lines = MultilineInput
    /\ d_out # <<>> /\ Len(d_out[1]) = 1 /\ d_out[1][1].data = <<"a", "\n", "b">>

\* C28: for an input of comment lines and blank lines only, no event is
\* returned; every returned event has a non-empty event, data or id, and
\* there are no more events than groups that carry a field.
C28_NoEmptyEvents ==
    d_out # <<>> =>
        /\ (\A i \in 1 .. Len(d_in.lines) : d_in.lines[i].kind \in {"comment", "blank"})
              => d_out[1] = <<>>
        /\ \A i \in 1 .. Len(d_out[1]) :
              d_out[1][i].event # <<>> \/ d_out[1][i].data # <<>> \/ d_out[1][i].id # <<>>
        /\ Len(d_out[1]) <= FieldGroupCount(Groups(d_in.lines))

\* C28 witness: comment, blank, an empty data line, blank: a group that
\* carries a field, and no event
C28_Witness ==
    /\ d_in.lines = << CommentLine, BlankLine, FieldLine("data", <<>>), BlankLine >>
    /\ d_out = << <<>> >>

-----------------------------------------------------------------------------
(* Properties of http.stream_sse() *)

\* the connect attempt failed with an error the retry policy retries
ConnectFailedRetryably(resp) ==
    \/ resp.kind \in {"url_error", "os_error"}
    \/ /\ resp.kind = "http_error"
       /\ ~(400 <= resp.code /\ resp.code < 500 /\ resp.code # 429)

\* the connect loop follows the retry policy of request(): a 4xx other than
\* 429 ends the call at once with that error; any other failure is followed,
\* while fewer than MAX_RETRIES attempts were made, by a sleep and a further
\* attempt; the error of the last of MAX_RETRIES failed attempts is raised
ConnectFollowsRetryPolicy ==
    /\ Len(s_log) <= MAX_RETRIES
    /\ \A i \in 1 .. Len(s_log) :
          LET resp == s_log[i].resp IN
          IF ~ConnectFailedRetryably(resp)
          THEN /\ i = Len(s_log) /\ s_pc = "done" /\ s_log[i].sleep = <<>>
               /\ s_outcome = <<SseRaised(ErrorOf(resp))>>
          ELSE IF i < MAX_RETRIES
          THEN /\ s_log[i].sleep # <<>>
               /\ ~(s_pc = "done" /\ i = Len(s_log))
          ELSE /\ s_log[i].sleep = <<>>
               /\ s_pc = "done" => s_outcome = <<SseRaised(ErrorOf(resp))>>

\* C12: the connect loop of stream_sse() follows the retry policy of
\* request(); once a connect has succeeded no further connect attempt is
\* made; a read that fails (error or timeout) ends the generator with an
\* error.
C12_OnlyConnectIsRetried ==
    /\ [](ConnectFollowsRetryPolicy /\ s_opens <= 1)
    /\ [][s_conn # "none" =>
            /\ s_opens' = s_opens /\ s_attempt' = s_attempt /\ s_log' = s_log
            /\ s_wire'.failed # "" =>
                   (s_pc' = "done" /\ s_outcome' # <<>> /\ s_outcome'[1].kind = "error")]_vars

\* the lines up to the last blank line
RECURSIVE UpToLastBlank(_)
UpToLastBlank(lines) ==
    IF lines = <<>> \/ lines[Len(lines)].kind = "blank" THEN lines
    ELSE UpToLastBlank(SubSeq(lines, 1, Len(lines) - 1))

\* the events a sequence of lines delimits with blank lines
DelimitedEvents(lines) == parse_sse_lines(UpToLastBlank(lines))

\* C13: when a read of the stream times out, the consumer has received, in
\* order, every event the lines read so far delimit with a blank line, and
\* the generator has ended with an HTTPError (the wrapped timeout).
C13_StallAfterEvents ==
    s_wire.failed = "TimeoutError" =>
        /\ s_pc = "done"
        /\ s_yielded = DelimitedEvents(s_wire.lines)
        /\ s_outcome # <<>> /\ s_outcome[1].kind = "error"
        /\ s_outcome[1].error.cls = "HTTPError"

\* C13 witness: two different events were yielded, then the read timed out
C13_Witness ==
    /\ s_wire.failed = "TimeoutError" /\ Len(s_yielded) = 2
    /\ s_yielded[1] # s_yielded[2]
    /\ s_outcome = <<SseRaised(RequestHTTPError(None, Absent, <<>>))>>

\* C14: when the stream reaches EOF and the consumer has not left its loop,
\* the generator ends without raising, and the consumer has received
\* exactly the events of the lines read, in order.
C14_CleanEOF ==
    (s_wire.eof /\ s_pc = "done" /\ s_outcome # <<SseClosed>>) =>
        /\ s_outcome = <<SseExhausted>>
        /\ s_yielded = parse_sse_lines(s_wire.lines)

\* C14 witness: two complete events, then EOF
C14_Witness ==
    /\ s_wire.eof /\ s_outcome = <<SseExhausted>>
    /\ Len(s_wire.lines) = 4 /\ s_wire.lines[4].kind = "blank"
    /\ Len(s_yielded) = 2 /\ s_yielded[1] # s_yielded[2]

\* the lines stream_sse has read and not parsed yet: its buffer, unless the
\* events of the buffer are being yielded or EOF has flushed it
Unparsed == IF s_pc = "yield" \/ s_wire.eof THEN <<>> ELSE s_buffer

\* C36: the events stream_sse yields are, in the same order, the events
\* _parse_sse_lines returns for the whole sequence of lines: while the
\* stream is read, the parse of all lines read so far is the events yielded,
\* then those about to be yielded, then the parse of the buffered lines (no
\* parser state crosses a blank line); at clean EOF it is the events yielded.
C36_StreamMatchesParser ==
    /\ (s_pc \in {"read", "yield"} \/ s_outcome = <<SseExhausted>>) =>
          parse_sse_lines(s_wire.lines)
              = s_yielded \o s_pending \o parse_sse_lines(Unparsed)
    /\ s_outcome = <<SseExhausted>> => s_pending = <<>> /\ Unparsed = <<>>

\* C36 witness: event x, blank, data b, EOF: two events, the second one
\* without the type of the first
C36_Witness ==
    /\ s_outcome = <<SseExhausted>>
    /\ s_wire.lines = << FieldLine("event", <<" ", "x">>), BlankLine,
                         FieldLine("data", <<"b">>) >>
    /\ s_yielded = << SseEvent(<<"x">>, <<>>, <<>>), SseEvent(<<>>, <<"b">>, <<>>) >>

\* the lines of an input after its last blank line
TrailingLines(lines) == Groups(lines)[Len(Groups(lines))]

\* the final event of an input: that of its trailing lines, if its event,
\* data or id is not empty
FinalEvent(lines) == EventsOfGroups(<<TrailingLines(lines)>>)

\* C29 as stated: at clean EOF, when the lines read end with lines of the
\* fields event, data or id that no blank line follows, exactly one final
\* event has been flushed, by stream_sse to its consumer and by
\* _parse_sse_lines applied to the same lines; when no such line is buffered,
\* nothing has been flushed.
C29_FinalFlush_Original ==
    (s_wire.eof /\ s_outcome = <<SseExhausted>>) =>
        LET flushed == IF CarriesField(TrailingLines(s_wire.lines)) THEN 1 ELSE 0 IN
        /\ Len(s_yielded) = Len(DelimitedEvents(s_wire.lines)) + flushed
        /\ Len(parse_sse_lines(s_wire.lines)) = Len(DelimitedEvents(s_wire.lines)) + flushed

\* C29 amended: at clean EOF, the lines after the last blank line have been
\* flushed as exactly one final event when they give a non-empty event, data
\* or id, and nothing has been flushed otherwise (no field line, or only
\* data lines with empty values): by stream_sse to its consumer and by
\* _parse_sse_lines applied to the same lines.
C29_FinalFlush ==
    (s_wire.eof /\ s_outcome = <<SseExhausted>>) =>
        /\ Len(FinalEvent(s_wire.lines)) <= 1
        /\ s_yielded = DelimitedEvents(s_wire.lines) \o FinalEvent(s_wire.lines)
        /\ parse_sse_lines(s_wire.lines)
              = DelimitedEvents(s_wire.lines) \o FinalEvent(s_wire.lines)

\* C29 witness: data a, blank, event x, id 1, then EOF: the second event is
\* the flushed one
C29_Witness ==
    /\ s_wire.eof /\ s_outcome = <<SseExhausted>>
    /\ s_wire.lines = << FieldLine("data", <<" ", "a">>), BlankLine,
                         FieldLine("event", <<" ", "x">>), FieldLine("id", <<" ", "1">>) >>
    /\ s_yielded = << SseEvent(<<>>, <<"a">>, <<>>), SseEvent(<<"x">>, <<>>, <<"1">>) >>

\* C15: the connection is open only while the generator is reading or
\* yielding: once the generator has ended (EOF, failed read, consumer gone)
\* the connection it opened is closed, and nothing is yielded any more.
C15_ConnectionClosed ==
    /\ [](s_conn = "open" <=> s_pc \in {"read", "yield"})
    /\ []((s_pc = "done" /\ s_opens = 1) => s_conn = "closed")
    /\ [][s_pc = "done" => (s_yielded' = s_yielded /\ s_conn' = s_conn)]_vars

\* C15 witness: the consumer left its loop at the first event
C15_Witness ==
    /\ s_outcome = <<SseClosed>> /\ s_conn = "closed" /\ Len(s_yielded) = 1

=============================================================================
